---- MODULE Spec2Model ----
(***************************************************************************)
(* A model of the Skibidi card game engine: Card, Dealer, Player.View and  *)
(* Game (round / turn loop, reactive discards, effects, scoring).          *)
(*                                                                         *)
(* Python indices are kept 0-based (current_player_index, caller_index,    *)
(* hand slots); a Python list is a sequence whose last element is the top. *)
(***************************************************************************)
EXTENDS Integers, Sequences, FiniteSets, TLC

VARIABLES
    dealer,                 \* the Dealer object: piles, sizes and its View
    hands,                  \* Game.hands / the dict handed to deal_initial_hands
    views,                  \* Player.view of every player
    gview,                  \* Game.View: effects_queue, current_player_index, scores, round
    current_player_index,   \* Game.current_player_index
    caller_index,           \* Game.caller_index
    initially_known,        \* Game.initially_known
    round_attr,             \* the attribute Game.round read by init_round
    pc,                     \* position inside Game.play (or "driver" for the Dealer driver)
    card,                   \* play()'s local `card`: the drawn card in flight
    source,                 \* play()'s local `source`
    react,                  \* allow_discards' locals: the captured top card and its caller
    err,                    \* the exception that left the running operation, or NoError
    held,                   \* cards the Dealer driver holds outside every pile
    last,                   \* the operation performed by the last step
    ops,                    \* number of driver operations / turns taken so far
    picks,                  \* number of reactive selections made so far
    final_lap               \* history: the round's first caller and who took a turn since

vars == <<dealer, hands, views, gview, current_player_index, caller_index,
          initially_known, round_attr, pc, card, source, react, err, held, ops, picks,
          final_lap, last>>

----------------------------------------------------------------------------
(* Bounds of the model *)

\* shuffle outcomes considered: the reversal and the rotations by 0..MaxShuffles-1
MaxShuffles == 1
\* operations the Dealer driver performs
MaxOps == 5
\* largest number of players the Dealer driver deals to
MaxDealPlayers == 11
\* cards of the deck the game is played with
DeckSize == 8
\* turns played in one game
MaxTurns == 2
\* rounds played
MaxRounds == 2
\* reactive selections made in one game
MaxReact == 1

\* method calls made on one Game by the engine driver
MaxCalls == 2

----------------------------------------------------------------------------
(* Sequence helpers: Python list operations *)

Min(a, b) == IF a < b THEN a ELSE b

Top(s) == s[Len(s)]

Pop(s) == SubSeq(s, 1, Len(s) - 1)

\* list[idx] for 0 <= idx < len(list)
At(s, idx) == s[idx + 1]

\* list.pop(idx) for 0 <= idx < len(list): the list without that slot
PopAt(s, idx) == SubSeq(s, 1, idx) \o SubSeq(s, idx + 2, Len(s))

Reverse(s) == [i \in 1..Len(s) |-> s[Len(s) + 1 - i]]

Rotate(s, k) == [i \in 1..Len(s) |-> s[((i - 1 + k) % Len(s)) + 1]]

\* [x] * n
Repeat(x, n) == [i \in 1..n |-> x]

Range(s) == {s[i] : i \in 1..Len(s)}

\* number of slots of s holding x
Count(s, x) == Cardinality({i \in 1..Len(s) : s[i] = x})

IsPermutation(s, t) ==
    /\ Len(s) = Len(t)
    /\ \A x \in Range(s) \cup Range(t) : Count(s, x) = Count(t, x)

\* random.shuffle: the outcome selected by k
ShuffleKeys == 0..MaxShuffles

random_shuffle(s, k) ==
    IF Len(s) = 0 THEN s
    ELSE IF k = 0 THEN Reverse(s) ELSE Rotate(s, k - 1)

----------------------------------------------------------------------------
(* Card *)

Suits == <<"SPADES", "HEARTS", "DIAMONDS", "CLUBS">>

Ranks == <<"A", "2", "3", "4", "5", "6", "7", "8", "9", "10", "J", "Q", "K">>

Card(suit, rank) == [suit |-> suit, rank |-> rank]

\* Python's None, as a value comparable with a card
None == [suit |-> "None", rank |-> "None"]

\* the suit argument of a joker (None in the source)
NoSuit == "NoSuit"

IsJoker(c) == c.rank \in {"JOKER_RED", "JOKER_BLACK"}

\* every king shuffling, whatever its suit
init_effect_any_king(suit, rank) ==
    IF rank = "K" THEN "SHUFFLE"
    ELSE IF rank = "Q" THEN "SWAP"
    ELSE IF rank = "J" THEN "PEEK"
    ELSE "NONE"

\* Card._init_effect
init_effect(suit, rank) ==
    IF rank = "K"
    THEN (IF suit \in {"HEARTS", "DIAMONDS"} THEN "SHUFFLE" ELSE "DRAW")
    ELSE IF rank = "Q" THEN "SWAP"
    ELSE IF rank = "J" THEN "PEEK"
    ELSE "NONE"

effect(c) == init_effect(c.suit, c.rank)

\* cards taken for equal when their ranks agree
Card_eq_rank(a, b) == a.rank = b.rank

\* Card.__eq__: self.suit == other.suit and self.rank == other.rank
Card_eq(a, b) == a.suit = b.suit /\ a.rank = b.rank

\* int(self.rank) on the numeric rank strings
IntOfRank(rank) ==
    CASE rank = "2" -> 2 [] rank = "3" -> 3 [] rank = "4" -> 4
      [] rank = "5" -> 5 [] rank = "6" -> 6 [] rank = "7" -> 7
      [] rank = "8" -> 8 [] rank = "9" -> 9 [] rank = "10" -> 10

\* an ace counted high
value_ace_high(c) ==
    IF c.rank \in {"JOKER_RED", "JOKER_BLACK"} THEN 0
    ELSE IF c.rank \in {"J", "Q", "K"} THEN 10
    ELSE IF c.rank = "A" THEN 11
    ELSE IntOfRank(c.rank)

\* Card.value
value(c) ==
    IF c.rank \in {"JOKER_RED", "JOKER_BLACK"} THEN 0
    ELSE IF c.rank \in {"J", "Q", "K"} THEN 10
    ELSE IF c.rank = "A" THEN 1
    ELSE IntOfRank(c.rank)

init_deck ==
    [i \in 1..(Len(Suits) * Len(Ranks)) |->
        Card(Suits[((i - 1) \div Len(Ranks)) + 1], Ranks[((i - 1) % Len(Ranks)) + 1])]
    \o <<Card(NoSuit, "JOKER_RED"), Card(NoSuit, "JOKER_BLACK")>>

----------------------------------------------------------------------------
(* Dealer *)

NoError == "NoError"

\* Dealer.View.update: the view re-reads the size and re-binds to the current list
View_update(d) ==
    [d EXCEPT !.view = [draw_pile_size |-> Len(d.draw_pile),
                        discard_pile |-> d.discard_pile],
              !.view_aliases_discard = TRUE]

\* self.discard_pile mutated in place: a view bound to the same list sees it
MutateDiscard(d, new) ==
    [d EXCEPT !.discard_pile = new,
              !.view.discard_pile = IF d.view_aliases_discard THEN new ELSE @]

\* self.discard_pile = <new list>: the view keeps the list it was bound to
RebindDiscard(d, new) ==
    [d EXCEPT !.discard_pile = new, !.view_aliases_discard = FALSE]

Dealer_init(hand_size, treasure_size, deck) ==
    View_update([hand_size |-> hand_size,
                 treasure_size |-> treasure_size,
                 deck |-> deck,
                 draw_pile |-> deck,
                 discard_pile |-> <<>>,
                 treasure |-> <<>>,
                 view |-> [draw_pile_size |-> 0, discard_pile |-> <<>>],
                 view_aliases_discard |-> TRUE])

reset_deck(d, k) ==
    View_update([RebindDiscard(d, <<>>) EXCEPT
                    !.draw_pile = random_shuffle(d.deck, k),
                    !.treasure = <<>>])

\* a reshuffle that sends the whole discard pile, top included, to the draw pile
reshuffle_all_discards(d, k) ==
    RebindDiscard([d EXCEPT !.draw_pile = random_shuffle(d.discard_pile, k)], <<>>)

reshuffle_discard_into_draw(d, k) ==
    LET has_top == Len(d.discard_pile) > 0
        popped == IF has_top THEN MutateDiscard(d, Pop(d.discard_pile)) ELSE d
        drawn == [popped EXCEPT !.draw_pile = random_shuffle(popped.discard_pile, k)]
    IN  RebindDiscard(drawn, IF has_top THEN <<Top(d.discard_pile)>> ELSE <<>>)

\* a hand loop that deals each player's whole hand at once
RECURSIVE DealHandsWholeHand(_, _, _, _)
DealHandsWholeHand(dp, hs, n, total) ==
    IF n = total THEN [draw_pile |-> dp, hands |-> hs]
    ELSE LET player == n \div (total \div Cardinality(DOMAIN hs))
         IN  DealHandsWholeHand(Pop(dp), [hs EXCEPT ![player] = Append(@, Top(dp))],
                                n + 1, total)

\* the hand loop of deal_initial_hands: n cards already dealt out of total
RECURSIVE DealHands(_, _, _, _)
DealHands(dp, hs, n, total) ==
    IF n = total THEN [draw_pile |-> dp, hands |-> hs]
    ELSE LET player == n % Cardinality(DOMAIN hs)
         IN  DealHands(Pop(dp), [hs EXCEPT ![player] = Append(@, Top(dp))], n + 1, total)

\* the treasure loop of deal_initial_hands
RECURSIVE DealTreasure(_, _, _)
DealTreasure(dp, tr, n) ==
    IF n = 0 THEN [draw_pile |-> dp, treasure |-> tr]
    ELSE DealTreasure(Pop(dp), Append(tr, Top(dp)), n - 1)

\* a size test that also refuses a draw pile holding exactly the cards needed
NotEnoughCardsStrict(d, nplayers) ==
    Len(d.draw_pile) <= nplayers * d.hand_size + d.treasure_size + 1

\* the size test of deal_initial_hands
NotEnoughCards(d, nplayers) ==
    Len(d.draw_pile) < nplayers * d.hand_size + d.treasure_size + 1

deal_initial_hands(d, hs) ==
    LET nplayers == Cardinality(DOMAIN hs)
    IN  IF NotEnoughCards(d, nplayers)
        THEN [dealer |-> d, hands |-> hs,
              err |-> "ValueError: Not enough cards to deal initial hands and treasure."]
        ELSE LET h == DealHands(d.draw_pile, hs, 0, d.hand_size * nplayers)
                 t == DealTreasure(h.draw_pile, d.treasure, d.treasure_size)
                 seeded == MutateDiscard([d EXCEPT !.draw_pile = Pop(t.draw_pile),
                                                   !.treasure = t.treasure],
                                         Append(d.discard_pile, Top(t.draw_pile)))
             IN  [dealer |-> View_update(seeded), hands |-> h.hands, err |-> NoError]

\* a draw that never reshuffles the discard pile
draw_from_draw_no_reshuffle(d, k) ==
    IF Len(d.draw_pile) > 0
    THEN [dealer |-> View_update([d EXCEPT !.draw_pile = Pop(@)]),
          card |-> Top(d.draw_pile), err |-> NoError]
    ELSE [dealer |-> d, card |-> None, err |-> "ValueError: Deck is empty."]

draw_from_draw(d, k) ==
    LET r == IF Len(d.draw_pile) = 0 THEN reshuffle_discard_into_draw(d, k) ELSE d
    IN  IF Len(r.draw_pile) > 0
        THEN [dealer |-> View_update([r EXCEPT !.draw_pile = Pop(@)]),
              card |-> Top(r.draw_pile), err |-> NoError]
        ELSE [dealer |-> r, card |-> None, err |-> "ValueError: Deck is empty."]

draw_from_discard(d) ==
    IF Len(d.discard_pile) > 0
    THEN [dealer |-> View_update(MutateDiscard(d, Pop(d.discard_pile))),
          card |-> Top(d.discard_pile), err |-> NoError]
    ELSE [dealer |-> d, card |-> None, err |-> "ValueError: Discard pile is empty."]

Dealer_draw(d, src, k) ==
    IF src = "DRAW" THEN draw_from_draw(d, k)
    ELSE IF src = "DISCARD" THEN draw_from_discard(d)
    ELSE [dealer |-> d, card |-> None, err |-> "ValueError: Invalid source specified."]

\* a discard that never reaches the pile
Dealer_discard_dropped(d, c) ==
    View_update(d)

\* Dealer.discard(card): discard_pile.append(card), view.update
Dealer_discard(d, c) ==
    View_update(MutateDiscard(d, Append(d.discard_pile, c)))

----------------------------------------------------------------------------
(* Player and Game: the configuration of tests/test_game.py *)

Names == <<"P1", "P2">>

\* hand_size of the games played: 2 as in tests/test_game.py, and 1
HandSizes == {1, 2}

TreasureSize == 1

FinishScore == 100

\* players are named by their index in Game.players
Players == 0..(Len(Names) - 1)

\* a name no player carries
UnknownPlayer == Len(Names)

\* the deck the game is played with: the first DeckSize cards of this selection
DeckOrder ==
    <<Card("SPADES", "A"), Card("HEARTS", "K"), Card("SPADES", "Q"),
      Card("SPADES", "J"), Card("SPADES", "K"), Card("SPADES", "2"),
      Card(NoSuit, "JOKER_RED"), Card("HEARTS", "Q"), Card("HEARTS", "J"),
      Card("SPADES", "3"), Card("DIAMONDS", "K"), Card("CLUBS", "K")>>

GameDeck == SubSeq(DeckOrder, 1, DeckSize)

\* Player.View.__init__ / Player.View.reset
PlayerView(ps, d, p) ==
    [drawn_card |-> None,
     hand |-> Repeat(None, d.hand_size),
     opponents_hands |-> [q \in ps \ {p} |-> Repeat(None, d.hand_size)],
     treasure |-> Repeat(None, d.treasure_size)]

\* Game.View.__init__
GameView ==
    [effects_queue |-> <<>>,
     current_player_index |-> 0,
     scores |-> [p \in Players |-> 0],
     round |-> 0]

\* an exception caught and dropped where it is raised
RaiseSwallowed(g, e) == g

\* the state the engine's methods work on, and the exception that left them
Raise(g, e) == [g EXCEPT !.err = e]

\* self.players of the game g: the players are the keys of self.hands
PlayersOf(g) == DOMAIN g.hands

NumPlayers(g) == Cardinality(DOMAIN g.hands)

get_player_by_name(g, name) ==
    IF name \in PlayersOf(g) THEN NoError ELSE "ValueError: No player found."

\* an index taken as Python takes a list index: -1 is the last slot
learn_card_wraps(g, p, idx, c) ==
    IF 0 <= idx /\ idx < Len(g.views[p].hand)
    THEN [g EXCEPT !.views[p].hand[idx + 1] = c]
    ELSE IF idx < 0 /\ 0 <= Len(g.views[p].hand) + idx
    THEN [g EXCEPT !.views[p].hand[Len(g.views[p].hand) + idx + 1] = c]
    ELSE Raise(g, "ValueError: Invalid card index.")

\* Player.learn_card
learn_card(g, p, idx, c) ==
    IF 0 <= idx /\ idx < Len(g.views[p].hand)
    THEN [g EXCEPT !.views[p].hand[idx + 1] = c]
    ELSE Raise(g, "ValueError: Invalid card index.")

\* an opponent's card looked at and not recorded
learn_opponent_card_forgets(g, p, opponent, idx, c) == g

learn_opponent_card(g, p, opponent, idx, c) ==
    IF opponent \in DOMAIN g.views[p].opponents_hands
    THEN IF 0 <= idx /\ idx < Len(g.views[p].opponents_hands[opponent])
         THEN [g EXCEPT !.views[p].opponents_hands[opponent][idx + 1] = c]
         ELSE Raise(g, "ValueError: Invalid card index.")
    ELSE Raise(g, "ValueError: Opponent not found.")

\* Game.discard(player, card=card), and the tail it shares with discard by index
discard_card(g, p, c) ==
    LET g1 == [g EXCEPT !.dealer = Dealer_discard(g.dealer, c), !.card = None]
    IN  IF effect(c) # "NONE"
        THEN [g1 EXCEPT !.effects_queue = Append(@, <<p, effect(c)>>)]
        ELSE g1

discard_drawn(g, p, c) ==
    discard_card([g EXCEPT !.views[p].drawn_card = None], p, c)

\* the loop of Game.discard over the opponents' views, from player i on
RECURSIVE discard_opponents(_, _, _, _)
discard_opponents(g, i, p, idx) ==
    IF i = NumPlayers(g) \/ g.err # NoError THEN g
    ELSE IF i = p THEN discard_opponents(g, i + 1, p, idx)
    ELSE IF idx < Len(g.views[i].opponents_hands[p])
    THEN discard_opponents([g EXCEPT !.views[i].opponents_hands[p] = PopAt(@, idx)],
                           i + 1, p, idx)
    ELSE Raise(g, "IndexError: pop index out of range")

\* Game.discard(player, idx=idx)
discard_idx(g, p, idx) ==
    IF ~(0 <= idx /\ idx < Len(g.hands[p]))
    THEN Raise(g, "ValueError: Invalid index for discard.")
    ELSE LET c == At(g.hands[p], idx)
             g1 == [g EXCEPT !.hands[p] = PopAt(@, idx), !.card = c]
         IN  IF idx >= Len(g1.views[p].hand)
             THEN Raise(g1, "IndexError: pop index out of range")
             ELSE LET g2 == discard_opponents(
                                [g1 EXCEPT !.views[p].hand = PopAt(@, idx)], 0, p, idx)
                  IN  IF g2.err # NoError THEN g2 ELSE discard_card(g2, p, c)

\* the int that self.discard(p, idx) binds to the parameter `card`
IntObject(i) == [suit |-> "int", rank |-> ToString(i)]

\* Game.discard(p, idx) as allow_discards calls it: idx is bound to `card`
discard_positional(g, p, idx) ==
    LET g1 == [g EXCEPT !.views[p].drawn_card = None,
                        !.dealer = Dealer_discard(g.dealer, IntObject(idx))]
    IN  Raise(g1, "AttributeError: 'int' object has no attribute 'effect'")

\* Game.exchange with reveal=True; the replaced card is left in g.card
exchange(g, p, idx, c) ==
    IF ~(0 <= idx /\ idx < Len(g.hands[p]))
    THEN Raise(g, "ValueError: Invalid index for exchange.")
    ELSE learn_card([g EXCEPT !.hands[p][idx + 1] = c, !.card = At(g.hands[p], idx)],
                    p, idx, c)

\* a penalty card no view takes note of
penalize_unseen(g, p, k) ==
    LET r == Dealer_draw(g.dealer, "DRAW", k)
    IN  IF r.err # NoError
        THEN [g EXCEPT !.dealer = r.dealer, !.err = r.err]
        ELSE [g EXCEPT !.dealer = r.dealer, !.hands[p] = Append(@, r.card)]

\* Game.penalize
penalize(g, p, k) ==
    LET r == Dealer_draw(g.dealer, "DRAW", k)
    IN  IF r.err # NoError
        THEN [g EXCEPT !.dealer = r.dealer, !.err = r.err]
        ELSE [g EXCEPT !.dealer = r.dealer,
                       !.hands[p] = Append(@, r.card),
                       !.views = [q \in PlayersOf(g) |->
                           IF q = p
                           THEN [g.views[q] EXCEPT !.hand = Append(@, None)]
                           ELSE [g.views[q] EXCEPT !.opponents_hands[p] = Append(@, None)]]]

\* a reveal that reaches no opponent
reveal_to_nobody(g, i, p, idx, c) == g

\* Game.reveal_to_others, from player i on
RECURSIVE reveal_to_others(_, _, _, _, _)
reveal_to_others(g, i, p, idx, c) ==
    IF i = NumPlayers(g) \/ g.err # NoError THEN g
    ELSE reveal_to_others(IF i = p THEN g ELSE learn_opponent_card(g, i, p, idx, c),
                          i + 1, p, idx, c)

\* list[idx] on a view list: the entry, or an IndexError
InRange(s, idx) == 0 <= idx /\ idx < Len(s)

\* a SWAP that leaves every view as it was
swap_views_skip(g, i, t1, idx1, t2, idx2) == g

\* the view loop of the SWAP effect, from player i on
RECURSIVE swap_views(_, _, _, _, _, _)
swap_views(g, i, t1, idx1, t2, idx2) ==
    IF i = NumPlayers(g) \/ g.err # NoError THEN g
    ELSE LET v == g.views[i]
             next(gn) == swap_views(gn, i + 1, t1, idx1, t2, idx2)
         IN  IF i = t1
             THEN IF ~InRange(v.hand, idx1) THEN Raise(g, "IndexError: list index out of range")
                  ELSE IF t2 \notin DOMAIN v.opponents_hands THEN Raise(g, "KeyError")
                  ELSE IF ~InRange(v.opponents_hands[t2], idx2)
                  THEN Raise(g, "IndexError: list index out of range")
                  ELSE next([g EXCEPT
                          !.views[i].hand[idx1 + 1] = At(v.opponents_hands[t2], idx2),
                          !.views[i].opponents_hands[t2][idx2 + 1] = At(v.hand, idx1)])
             ELSE IF i = t2
             THEN IF ~InRange(v.hand, idx2) THEN Raise(g, "IndexError: list index out of range")
                  ELSE IF ~InRange(v.opponents_hands[t1], idx1)
                  THEN Raise(g, "IndexError: list index out of range")
                  ELSE next([g EXCEPT
                          !.views[i].hand[idx2 + 1] = At(v.opponents_hands[t1], idx1),
                          !.views[i].opponents_hands[t1][idx1 + 1] = At(v.hand, idx2)])
             ELSE IF ~InRange(v.opponents_hands[t1], idx1)
                     \/ ~InRange(v.opponents_hands[t2], idx2)
                  THEN Raise(g, "IndexError: list index out of range")
                  ELSE LET a == At(v.opponents_hands[t1], idx1)
                           b == At(v.opponents_hands[t2], idx2)
                       IN  next([g EXCEPT
                               !.views[i].opponents_hands =
                                   [[@ EXCEPT ![t1][idx1 + 1] = b]
                                       EXCEPT ![t2][idx2 + 1] = a]])

\* a swap that writes only the first hand
swap_cards_one_way(hs, t1, idx1, t2, idx2) ==
    [hs EXCEPT ![t1][idx1 + 1] = At(hs[t2], idx2)]

\* the SWAP effect on the true hands
swap_cards(hs, t1, idx1, t2, idx2) ==
    LET card1 == At(hs[t1], idx1)
        card2 == At(hs[t2], idx2)
        h1 == [hs EXCEPT ![t1][idx1 + 1] = card2]
    IN  [h1 EXCEPT ![t2][idx2 + 1] = card1]

\* a strategy's answer to decide_effect
Decision(name, idx, name2, idx2) == [name |-> name, idx |-> idx, name2 |-> name2, idx2 |-> idx2]

\* Game.apply_effect
apply_effect(g, p, eff, dec, k) ==
    IF eff = "DRAW"
    THEN IF get_player_by_name(g, dec.name) # NoError
         THEN Raise(g, get_player_by_name(g, dec.name))
         ELSE penalize(g, dec.name, k)
    ELSE IF eff = "SHUFFLE"
    THEN IF get_player_by_name(g, dec.name) # NoError
         THEN Raise(g, get_player_by_name(g, dec.name))
         ELSE [g EXCEPT !.hands[dec.name] = random_shuffle(@, k),
                        !.views[dec.name].hand = Repeat(None, Len(@))]
    ELSE IF eff = "SWAP"
    THEN IF get_player_by_name(g, dec.name) # NoError
         THEN Raise(g, get_player_by_name(g, dec.name))
         ELSE IF get_player_by_name(g, dec.name2) # NoError
         THEN Raise(g, get_player_by_name(g, dec.name2))
         ELSE IF ~InRange(g.hands[dec.name], dec.idx) \/ ~InRange(g.hands[dec.name2], dec.idx2)
         THEN Raise(g, "IndexError: list index out of range")
         ELSE swap_views([g EXCEPT !.hands = swap_cards(@, dec.name, dec.idx,
                                                         dec.name2, dec.idx2)],
                         0, dec.name, dec.idx, dec.name2, dec.idx2)
    ELSE IF eff = "PEEK"
    THEN IF get_player_by_name(g, dec.name) # NoError
         THEN Raise(g, get_player_by_name(g, dec.name))
         ELSE IF ~InRange(g.hands[dec.name], dec.idx)
         THEN Raise(g, "IndexError: list index out of range")
         ELSE IF dec.name = p
         THEN learn_card(g, p, dec.idx, At(g.hands[dec.name], dec.idx))
         ELSE learn_opponent_card(g, p, dec.name, dec.idx, At(g.hands[dec.name], dec.idx))
    ELSE g

\* sum(card.value() for card in hand)
RECURSIVE HandValue(_)
HandValue(h) == IF Len(h) = 0 THEN 0 ELSE value(h[1]) + HandValue(Tail(h))

\* min(tmp_scores) after tmp_scores.pop(caller_index)
MinOpponentScore(tmp_scores, caller) ==
    LET others == {tmp_scores[q] : q \in Players \ {caller}}
    IN  CHOOSE m \in others : \A x \in others : m <= x

\* calculate_scores with a tie counted as a successful call
calculate_scores_tie_wins(hs, scores, caller) ==
    LET tmp_scores == [p \in Players |-> HandValue(hs[p])]
        caller_score == tmp_scores[caller]
        round_scores == IF MinOpponentScore(tmp_scores, caller) >= caller_score
                        THEN [tmp_scores EXCEPT ![caller] = 0]
                        ELSE [tmp_scores EXCEPT ![caller] = @ * 2]
    IN  [p \in Players |-> scores[p] + round_scores[p]]

\* Game.calculate_scores: the scores after the round
calculate_scores(hs, scores, caller) ==
    LET tmp_scores == [p \in Players |-> HandValue(hs[p])]
        caller_score == tmp_scores[caller]
        round_scores == IF MinOpponentScore(tmp_scores, caller) > caller_score
                        THEN [tmp_scores EXCEPT ![caller] = 0]
                        ELSE [tmp_scores EXCEPT ![caller] = @ * 2]
    IN  [p \in Players |-> scores[p] + round_scores[p]]

\* a game that goes on until a score exceeds the limit
is_finished_strict(scores) == \E p \in Players : scores[p] > FinishScore

\* Game.is_finished
is_finished(scores) == \E p \in Players : scores[p] >= FinishScore

\* self.view.scores.index(max(self.view.scores))
IndexOfMax(scores) ==
    CHOOSE p \in Players :
        /\ \A q \in Players : scores[q] <= scores[p]
        /\ \A q \in Players : q < p => scores[q] < scores[p]

----------------------------------------------------------------------------
(* Game.play: one action per stretch between two strategy decisions *)

\* what the last step did: the operation, two of its arguments and the card it returned
Label(op, a, b, ret) == [op |-> op, a |-> a, b |-> b, ret |-> ret]

\* nobody has called in this round
NoLap == [caller |-> -1, turns |-> <<>>]

\* allow_discards is not running
NoReact == [card |-> None, player |-> 0, phase |-> "none", iters |-> 0, declared |-> <<>>]

\* Game(initially_known=2), the default, and initially_known set to a list of indices
IntKnown(n) == [is_list |-> FALSE, count |-> n, items |-> <<>>]

ListKnown(items) == [is_list |-> TRUE, count |-> Len(items), items |-> items]

\* the engine state the methods above work on
G == [dealer |-> dealer, hands |-> hands, views |-> views,
      effects_queue |-> gview.effects_queue, card |-> card, err |-> NoError]

Init ==
    /\ \E hs \in HandSizes : dealer = Dealer_init(hs, TreasureSize, GameDeck)
    /\ hands = [p \in Players |-> <<>>]
    /\ views = [p \in Players |-> PlayerView(Players, dealer, p)]
    /\ gview = GameView
    /\ current_player_index = 0
    /\ caller_index = -1
    /\ initially_known \in {IntKnown(2), ListKnown(<<0>>)}
    /\ round_attr \in {<<>>, <<0>>}
    /\ pc = "round_start"
    /\ card = None
    /\ source = "DRAW"
    /\ react = NoReact
    /\ err = NoError
    /\ held = <<>>
    /\ last = Label("init", 0, 0, None)
    /\ ops = 0
    /\ picks = 0
    /\ final_lap = NoLap

\* for i in self.initially_known: player.learn_card(i, self.hands[player.name][i])
RECURSIVE learn_initial(_, _, _)
learn_initial(g, p, items) ==
    IF Len(items) = 0 \/ g.err # NoError THEN g
    ELSE IF ~InRange(g.hands[p], items[1])
    THEN Raise(g, "IndexError: list index out of range")
    ELSE learn_initial(learn_card(g, p, items[1], At(g.hands[p], items[1])), p, Tail(items))

\* the player loop of init_round, from player i on
RECURSIVE reset_views(_, _, _)
reset_views(g, i, known) ==
    IF i = Len(Names) \/ g.err # NoError THEN g
    ELSE LET g1 == [g EXCEPT !.views[i] = PlayerView(PlayersOf(g), g.dealer, i)]
         IN  IF ~known.is_list
             THEN Raise(g1, "TypeError: 'int' object is not iterable")
             ELSE reset_views(learn_initial(g1, i, known.items), i + 1, known)

\* Game.init_round up to the choice of the starting player
init_round(g, known, k) ==
    LET r == deal_initial_hands(reset_deck(g.dealer, k), g.hands)
    IN  IF r.err # NoError
        THEN [g EXCEPT !.dealer = r.dealer, !.err = r.err]
        ELSE reset_views([g EXCEPT !.dealer = r.dealer, !.hands = r.hands], 0, known)

\* 0 if self.round == 0 else self.view.scores.index(max(self.view.scores))
StartingPlayer(rnd, scores) == IF rnd = 0 THEN 0 ELSE IndexOfMax(scores)

\* a round that is over as soon as somebody has called
TurnLoopEndsAtCall(caller, current) ==
    IF caller < 0 THEN "draw" ELSE "round_end"

\* the test of the turn loop: where play() goes after a turn or after init_round
TurnLoop(caller, current) ==
    IF caller < 0 \/ current # caller THEN "draw" ELSE "round_end"

Commit(g) ==
    /\ dealer' = g.dealer
    /\ hands' = g.hands
    /\ views' = g.views
    /\ card' = g.card
    /\ err' = g.err

Abort(g) ==
    /\ Commit(g)
    /\ gview' = [gview EXCEPT !.effects_queue = g.effects_queue]
    /\ pc' = "aborted"
    /\ UNCHANGED <<current_player_index, caller_index, react, ops, final_lap>>

\* while not self.is_finished(): self.init_round()
InitRound ==
    /\ pc = "round_start"
    /\ gview.round < MaxRounds
    /\ \E k \in ShuffleKeys :
          LET g == init_round(G, initially_known, k)
          IN  /\ last' = Label("init_round", 0, 0, None)
              /\ source' = source
              /\ IF g.err # NoError THEN Abort(g)
                 ELSE IF round_attr = <<>>
                 THEN Abort(Raise(g, "AttributeError: 'Game' object has no attribute 'round'"))
                 ELSE /\ Commit(g)
                      /\ current_player_index' = StartingPlayer(round_attr[1], gview.scores)
                      /\ caller_index' = -1
                      /\ pc' = TurnLoop(-1, StartingPlayer(round_attr[1], gview.scores))
                      /\ final_lap' = NoLap
                      /\ UNCHANGED <<gview, react, ops>>
    /\ UNCHANGED <<initially_known, round_attr, held, picks>>

\* select_draw_pile, dealer.draw(source), view.drawn_card = card
DrawStepUpTo(n) ==
    /\ pc = "draw"
    /\ ops < n
    /\ \E src \in {"DRAW", "DISCARD"}, k \in ShuffleKeys :
          LET r == Dealer_draw(dealer, src, k)
              p == current_player_index
          IN  /\ last' = Label("draw", p, 0, r.card)
              /\ source' = src
              /\ IF r.err # NoError
                 THEN Abort([G EXCEPT !.dealer = r.dealer, !.err = r.err])
                 ELSE /\ Commit([G EXCEPT !.dealer = r.dealer, !.card = r.card,
                                          !.views[p].drawn_card = r.card])
                      /\ pc' = "exchange"
                      /\ ops' = ops + 1
                      /\ final_lap' = IF final_lap.caller < 0 THEN final_lap
                                       ELSE [final_lap EXCEPT !.turns = Append(@, p)]
                      /\ UNCHANGED <<gview, current_player_index, caller_index, react>>
    /\ UNCHANGED <<initially_known, round_attr, held, picks>>

DrawStep == DrawStepUpTo(MaxTurns)

\* a re-prompt loop that accepts every answer
MustRepromptNever(idx, src) == FALSE

\* while exchange_index < 0 and source == Dealer.Source.DISCARD
MustReprompt(idx, src) == idx < 0 /\ src = "DISCARD"

\* a negative answer of select_card_to_exchange after a draw from the discard pile
Reprompt ==
    /\ pc = "exchange"
    /\ \E idx \in {-2, -1} :
          /\ MustReprompt(idx, source)
          /\ last' = Label("reprompt", current_player_index, idx, None)
    /\ UNCHANGED <<dealer, hands, views, gview, current_player_index, caller_index,
                   initially_known, round_attr, pc, card, source, react, err, held, ops, picks,
                   final_lap>>

\* allow_discards returning at once, whatever the discard pile holds
EnterReactNever(g, p, phase) == NoReact

\* where play() goes when allow_discards(player) is entered
EnterReact(g, p, phase) ==
    IF Len(g.dealer.discard_pile) = 0
    THEN NoReact
    ELSE [card |-> Top(g.dealer.discard_pile), player |-> p, phase |-> phase, iters |-> 0,
          declared |-> <<>>]

\* an effects loop left after its first pass
EffectsLoopOnce(queue) == "call"

\* the test of the effects loop
EffectsLoop(queue) == IF Len(queue) > 0 THEN "effects" ELSE "call"

\* current_player_index advances and Game.View.update runs; then the turn loop test
Advance(g, caller) ==
    /\ Commit([g EXCEPT !.dealer = View_update(g.dealer)])
    /\ caller_index' = caller
    /\ current_player_index' = (current_player_index + 1) % Len(Names)
    /\ gview' = [gview EXCEPT
                    !.effects_queue = g.effects_queue,
                    !.current_player_index = (current_player_index + 1) % Len(Names)]
    /\ pc' = TurnLoop(caller, (current_player_index + 1) % Len(Names))
    /\ react' = NoReact

\* a turn that resolves the pending effects after every reactive phase, the one
\* that follows a call included
AfterReactResolves(g, phase) ==
    /\ Commit(g)
    /\ gview' = [gview EXCEPT !.effects_queue = g.effects_queue]
    /\ pc' = EffectsLoop(g.effects_queue)
    /\ react' = NoReact
    /\ UNCHANGED <<current_player_index, caller_index>>

\* play() after allow_discards returns
AfterReact(g, phase) ==
    IF phase = "turn"
    THEN /\ Commit(g)
         /\ gview' = [gview EXCEPT !.effects_queue = g.effects_queue]
         /\ pc' = EffectsLoop(g.effects_queue)
         /\ react' = NoReact
         /\ UNCHANGED <<current_player_index, caller_index>>
    ELSE Advance(g, caller_index)

\* play() from a call of allow_discards(player) on
AllowDiscards(g, p, phase) ==
    IF EnterReact(g, p, phase) = NoReact
    THEN AfterReact(g, phase)
    ELSE /\ Commit(g)
         /\ gview' = [gview EXCEPT !.effects_queue = g.effects_queue]
         /\ pc' = "react"
         /\ react' = EnterReact(g, p, phase)
         /\ UNCHANGED <<current_player_index, caller_index>>

\* the final answer of select_card_to_exchange: exchange or discard, then allow_discards
ExchangeStep ==
    /\ pc = "exchange"
    /\ \E idx \in -2..Len(hands[current_player_index]) :
          LET p == current_player_index
              x == exchange(G, p, idx, card)
              revealed == IF x.err = NoError /\ source = "DISCARD"
                          THEN reveal_to_others(x, 0, p, idx, card) ELSE x
              g == IF idx = -1 THEN discard_drawn(G, p, card)
                   ELSE IF revealed.err # NoError THEN revealed
                   ELSE discard_drawn(revealed, p, revealed.card)
          IN  /\ ~MustReprompt(idx, source)
              /\ last' = Label("exchange", p, idx, card)
              /\ IF g.err # NoError THEN Abort(g)
                 ELSE /\ AllowDiscards(g, p, "turn")
                      /\ UNCHANGED <<ops, final_lap>>
    /\ UNCHANGED <<initially_known, round_attr, source, held, picks>>

\* one iteration of the loop of allow_discards in which nobody declares a valid index
ReactNone ==
    /\ pc = "react"
    /\ last' = Label("react_none", react.player, 0, None)
    /\ AfterReact(G, react.phase)
    /\ UNCHANGED <<initially_known, round_attr, source, held, ops, picks, final_lap>>

\* one iteration of the loop of allow_discards in which (p, idx) is selected, in a
\* game that has made fewer than n selections so far
ReactPickUpTo(n) ==
    /\ pc = "react"
    /\ picks < n
    /\ picks' = picks + 1
    /\ \E p \in Players, k \in ShuffleKeys :
       \E idx \in 0..(Len(hands[p]) - 1) :
          LET card_to_discard == At(hands[p], idx)
              g == IF ~Card_eq(card_to_discard, react.card)
                   THEN penalize(G, p, k)
                   ELSE discard_positional(G, p, idx)
          IN  /\ last' = Label(IF ~Card_eq(card_to_discard, react.card)
                               THEN "react_penalize" ELSE "react_discard",
                               p, idx, card_to_discard)
              /\ IF g.err # NoError THEN Abort(g)
                 ELSE IF effect(react.card) = "NONE"
                 THEN /\ AfterReact(g, react.phase)
                      /\ UNCHANGED <<ops, final_lap>>
                 ELSE /\ Commit(g)
                      /\ gview' = [gview EXCEPT !.effects_queue = g.effects_queue]
                      /\ react' = [react EXCEPT !.iters = @ + 1]
                      /\ UNCHANGED <<pc, current_player_index, caller_index, ops,
                                      final_lap>>
    /\ UNCHANGED <<initially_known, round_attr, source, held>>

ReactPick == ReactPickUpTo(MaxReact)

\* the largest index of any hand
MaxIndex(hs) ==
    CHOOSE m \in -1..(2 * DeckSize) :
        /\ \A p \in Players : Len(hs[p]) - 1 <= m
        /\ \E p \in Players : Len(hs[p]) - 1 = m

\* the answers a strategy may give to decide_effect
Decisions(eff, hs) ==
    IF eff \in {"DRAW", "SHUFFLE"}
    THEN {Decision(t, 0, 0, 0) : t \in Players \cup {UnknownPlayer}}
    ELSE IF eff = "PEEK"
    THEN {d \in {Decision(t, i, 0, 0) : t \in Players, i \in 0..MaxIndex(hs)} :
            d.idx < Len(hs[d.name])}
            \cup {Decision(UnknownPlayer, 0, 0, 0)}
    ELSE {d \in {Decision(t1, i1, t2, i2) : t1 \in Players, i1 \in 0..MaxIndex(hs),
                                            t2 \in Players, i2 \in 0..MaxIndex(hs)} :
            d.idx < Len(hs[d.name]) /\ d.idx2 = Len(hs[d.name2]) - 1}

\* one pass of the effects loop: pop(0), decide_effect, apply_effect
EffectStep ==
    /\ pc = "effects"
    /\ LET player == gview.effects_queue[1][1]
           eff == gview.effects_queue[1][2]
           popped == [G EXCEPT !.effects_queue = Tail(@)]
       IN  \E dec \in Decisions(eff, hands), k \in ShuffleKeys :
              LET g == apply_effect(popped, player, eff, dec, k)
              IN  /\ last' = Label(eff, player, dec.name, None)
                  /\ IF g.err # NoError THEN Abort(g)
                     ELSE /\ Commit(g)
                          /\ gview' = [gview EXCEPT !.effects_queue = g.effects_queue]
                          /\ pc' = EffectsLoop(g.effects_queue)
                          /\ UNCHANGED <<current_player_index, caller_index, react, ops,
                                          final_lap>>
    /\ UNCHANGED <<initially_known, round_attr, source, held, picks>>

\* decide_call and what follows it up to the next decision
CallStep ==
    /\ pc = "call"
    /\ \E idx \in -1..Len(hands[current_player_index]) :
          LET p == current_player_index
              calls == 0 <= idx /\ idx < Len(hands[p])
              g == IF calls /\ Len(hands[p]) > 1 THEN discard_idx(G, p, idx) ELSE G
          IN  /\ last' = Label("call", p, idx, None)
              /\ IF g.err # NoError THEN Abort(g)
                 ELSE IF calls /\ Len(hands[p]) > 1
                 THEN /\ IF EnterReact(g, p, "call") = NoReact
                         THEN Advance(g, p)
                         ELSE /\ Commit(g)
                              /\ caller_index' = p
                              /\ gview' = [gview EXCEPT !.effects_queue = g.effects_queue]
                              /\ pc' = "react"
                              /\ react' = EnterReact(g, p, "call")
                              /\ UNCHANGED current_player_index
                      /\ final_lap' = IF final_lap.caller < 0
                                       THEN [final_lap EXCEPT !.caller = p] ELSE final_lap
                      /\ ops' = ops
                 ELSE /\ Advance(g, caller_index)
                      /\ UNCHANGED <<ops, final_lap>>
    /\ UNCHANGED <<initially_known, round_attr, source, held, picks>>

\* end_round, then the test of the game loop
EndRound ==
    /\ pc = "round_end"
    /\ gview' = [gview EXCEPT
                    !.round = @ + 1,
                    !.scores = calculate_scores(hands, gview.scores, caller_index)]
    /\ pc' = IF is_finished(gview'.scores) THEN "game_over" ELSE "round_start"
    /\ last' = Label("end_round", caller_index, 0, None)
    /\ UNCHANGED <<dealer, hands, views, current_player_index, caller_index,
                   initially_known, round_attr, card, source, react, err, held, ops, picks,
                   final_lap>>

Next ==
    \/ InitRound
    \/ DrawStep
    \/ Reprompt
    \/ ExchangeStep
    \/ ReactNone
    \/ ReactPick
    \/ EffectStep
    \/ CallStep
    \/ EndRound

Spec == Init /\ [][Next]_vars

\* play() is one thread: while the effects queue holds an entry the loop makes its
\* next pass
SpecLive == Spec /\ WF_vars(EffectStep)

\* play() with hands of two cards and one turn more in a round: a round called by
\* the second player runs to its end and the next round starts
InitLap ==
    /\ dealer = Dealer_init(2, TreasureSize, GameDeck)
    /\ hands = [p \in Players |-> <<>>]
    /\ views = [p \in Players |-> PlayerView(Players, dealer, p)]
    /\ gview = GameView
    /\ current_player_index = 0
    /\ caller_index = -1
    /\ initially_known = ListKnown(<<0>>)
    /\ round_attr = <<0>>
    /\ pc = "round_start"
    /\ card = None
    /\ source = "DRAW"
    /\ react = NoReact
    /\ err = NoError
    /\ held = <<>>
    /\ last = Label("init", 0, 0, None)
    /\ ops = 0
    /\ picks = 0
    /\ final_lap = NoLap

DrawStepLap == DrawStepUpTo(MaxTurns + 1)

NextLap ==
    \/ InitRound
    \/ DrawStepLap
    \/ Reprompt
    \/ ExchangeStep
    \/ ReactNone
    \/ EffectStep
    \/ CallStep
    \/ EndRound

SpecLap == InitLap /\ [][NextLap]_vars

----------------------------------------------------------------------------
(* The Dealer driven through its public methods, as tests/test_dealer.py does *)

\* {name: [] for name in player_names}
EmptyHands(n) == [p \in 0..(n - 1) |-> <<>>]

\* the state play() never touches in a Dealer-only run
GameIdle ==
    /\ views = <<>>
    /\ gview = <<>>
    /\ current_player_index = 0
    /\ caller_index = -1
    /\ initially_known = <<>>
    /\ round_attr = "absent"
    /\ card = None
    /\ source = "DRAW"
    /\ react = NoReact

GameUntouched ==
    UNCHANGED <<views, gview, current_player_index, caller_index, initially_known,
                round_attr, pc, card, source, react, picks, final_lap>>

InitDealer ==
    /\ dealer = Dealer_init(5, 3, init_deck)
    /\ hands = EmptyHands(0)
    /\ GameIdle
    /\ pc = "driver"
    /\ err = NoError
    /\ held = <<>>
    /\ last = Label("init", 0, 0, None)
    /\ ops = 0
    /\ picks = 0
    /\ final_lap = NoLap

DrvResetDeck ==
    /\ pc = "driver" /\ ops < MaxOps
    /\ \E k \in ShuffleKeys : dealer' = reset_deck(dealer, k)
    /\ err' = NoError
    /\ last' = Label("reset_deck", 0, 0, None)
    /\ ops' = ops + 1
    /\ UNCHANGED <<hands, held>>
    /\ GameUntouched

DrvDeal ==
    /\ pc = "driver" /\ ops < MaxOps
    /\ \E n \in {2, MaxDealPlayers - 1, MaxDealPlayers} :
          LET r == deal_initial_hands(dealer, EmptyHands(n))
          IN  /\ dealer' = r.dealer
              /\ hands' = r.hands
              /\ err' = r.err
              /\ last' = Label("deal_initial_hands", n, Len(dealer.draw_pile), None)
    /\ ops' = ops + 1
    /\ UNCHANGED held
    /\ GameUntouched

DrvReshuffle ==
    /\ pc = "driver" /\ ops < MaxOps
    /\ \E k \in ShuffleKeys : dealer' = reshuffle_discard_into_draw(dealer, k)
    /\ err' = NoError
    /\ last' = Label("reshuffle_discard_into_draw",
                     Len(dealer.draw_pile), Len(dealer.discard_pile), None)
    /\ ops' = ops + 1
    /\ UNCHANGED <<hands, held>>
    /\ GameUntouched

DrvDraw ==
    /\ pc = "driver" /\ ops < MaxOps
    /\ \E src \in {"DRAW", "DISCARD"}, k \in ShuffleKeys :
          LET r == Dealer_draw(dealer, src, k)
          IN  /\ dealer' = r.dealer
              /\ err' = r.err
              /\ held' = IF r.err = NoError THEN Append(held, r.card) ELSE held
              /\ last' = Label(IF src = "DRAW" THEN "draw_from_draw" ELSE "draw_from_discard",
                               Len(dealer.draw_pile), Len(dealer.discard_pile), r.card)
    /\ ops' = ops + 1
    /\ UNCHANGED hands
    /\ GameUntouched

\* discard(card) of a card the driver drew before
DrvDiscardHeld ==
    /\ pc = "driver" /\ ops < MaxOps
    /\ Len(held) > 0
    /\ dealer' = Dealer_discard(dealer, Top(held))
    /\ held' = Pop(held)
    /\ err' = NoError
    /\ last' = Label("discard", 0, 0, Top(held))
    /\ ops' = ops + 1
    /\ UNCHANGED hands
    /\ GameUntouched

\* discard(card) of the last card of one of the first two dealt hands
DrvDiscardFromHand ==
    /\ pc = "driver" /\ ops < MaxOps
    /\ \E p \in DOMAIN hands :
          /\ p < 2
          /\ Len(hands[p]) > 0
          /\ dealer' = Dealer_discard(dealer, Top(hands[p]))
          /\ hands' = [hands EXCEPT ![p] = Pop(@)]
          /\ last' = Label("discard", p, 0, Top(hands[p]))
    /\ err' = NoError
    /\ ops' = ops + 1
    /\ UNCHANGED held
    /\ GameUntouched

NextDealer ==
    \/ DrvResetDeck
    \/ DrvDeal
    \/ DrvReshuffle
    \/ DrvDraw
    \/ DrvDiscardHeld
    \/ DrvDiscardFromHand

SpecDealer == InitDealer /\ [][NextDealer]_vars

----------------------------------------------------------------------------
(* The Game's methods called one by one on a three-player table, as
   tests/test_game.py calls them on its two-player one *)

EngineNames == <<"P1", "P2", "P3">>

EngineHandSize == 2

\* cards a caller hands in from outside: a copy of the first card of the first hand,
\* a card with an effect and one without
TestCards(hs) ==
    (IF Len(hs[0]) > 0 THEN {At(hs[0], 0)} ELSE {})
        \cup {Card("CLUBS", "K"), Card("CLUBS", "2")}

\* the table after init_round: hands dealt, each player knowing the slots of
\* initially_known
InitEngine ==
    /\ initially_known \in {ListKnown(<<>>), ListKnown(<<0>>)}
    /\ \E n \in {DeckSize, DeckSize + 2}, k \in ShuffleKeys :
          LET d == Dealer_init(EngineHandSize, TreasureSize, SubSeq(DeckOrder, 1, n))
              empty == EmptyHands(Len(EngineNames))
              g == init_round([dealer |-> d, hands |-> empty,
                               views |-> [p \in DOMAIN empty |-> PlayerView(DOMAIN empty, d, p)],
                               effects_queue |-> <<>>, card |-> None, err |-> NoError],
                              initially_known, k)
          IN  /\ dealer = g.dealer
              /\ hands = g.hands
              /\ views = g.views
    /\ gview = [GameView EXCEPT !.scores = [p \in DOMAIN hands |-> 0]]
    /\ current_player_index = 0
    /\ caller_index = -1
    /\ round_attr = <<0>>
    /\ pc = "engine"
    /\ card = None
    /\ source = "DRAW"
    /\ react = NoReact
    /\ err = NoError
    /\ held = <<>>
    /\ last = Label("init", 0, 0, None)
    /\ ops = 0
    /\ picks = 0
    /\ final_lap = NoLap

\* the method returned, or raised and ended the run; r is what allow_discards
\* was answered, when it was the method
EngReturnWith(g, label, r) ==
    /\ pc = "engine"
    /\ ops < MaxCalls
    /\ ops' = ops + 1
    /\ Commit(g)
    /\ gview' = [gview EXCEPT !.effects_queue = g.effects_queue]
    /\ pc' = IF g.err = NoError THEN "engine" ELSE "aborted"
    /\ last' = label
    /\ react' = r
    /\ UNCHANGED <<current_player_index, caller_index, initially_known, round_attr,
                   source, held, picks, final_lap>>

EngReturn(g, label) == EngReturnWith(g, label, react)

\* game.discard(player, idx=idx)
EngDiscardIdx ==
    \E p \in DOMAIN hands : \E idx \in -1..Len(hands[p]) :
        EngReturn(discard_idx(G, p, idx), Label("discard_idx", p, idx, None))

\* game.discard(player, card=card)
EngDiscardCard ==
    \E p \in DOMAIN hands, c \in TestCards(hands) :
        EngReturn(discard_drawn(G, p, c), Label("discard_card", p, 0, c))

\* game.exchange(player, idx, card)
EngExchange ==
    \E p \in DOMAIN hands, c \in TestCards(hands) : \E idx \in 0..Len(hands[p]) :
        EngReturn(exchange(G, p, idx, c), Label("exchange", p, idx, c))

\* game.penalize(player)
EngPenalize ==
    \E p \in DOMAIN hands, k \in ShuffleKeys :
        EngReturn(penalize(G, p, k), Label("penalize", p, Len(dealer.draw_pile), None))

\* game.reveal_to_others(player, idx, card) with the card held at idx
EngReveal ==
    \E p \in DOMAIN hands : \E idx \in 0..(Len(hands[p]) - 1) :
        EngReturn(reveal_to_others(G, 0, p, idx, At(hands[p], idx)),
                  Label("reveal", p, idx, At(hands[p], idx)))

\* player.learn_card(idx, card)
EngLearnCard ==
    \E p \in DOMAIN hands : \E idx \in -1..Len(views[p].hand) :
        EngReturn(learn_card(G, p, idx, Card("CLUBS", "K")),
                  Label("learn_card", p, idx, Card("CLUBS", "K")))

\* player.learn_opponent_card(opponent, idx, card): the opponent is a player of the
\* game, the learning player itself or a player the game does not have
EngLearnOpponentCard ==
    \E p \in DOMAIN hands, o \in DOMAIN hands \cup {Cardinality(DOMAIN hands)} :
    \E idx \in -1..EngineHandSize :
        EngReturn(learn_opponent_card(G, p, o, idx, Card("CLUBS", "K")),
                  Label("learn_opponent_card", p, Decision(o, idx, 0, 0),
                        Card("CLUBS", "K")))

\* the decisions handed to apply_effect
EngDecisions(eff, hs) ==
    LET ps == DOMAIN hs
        none == Cardinality(ps)
        idxs == 0..EngineHandSize
    IN  IF eff \in {"DRAW", "SHUFFLE"}
        THEN {Decision(t, 0, 0, 0) : t \in ps \cup {none}}
        ELSE IF eff = "PEEK"
        THEN {d \in {Decision(t, i, 0, 0) : t \in ps, i \in idxs} : d.idx < Len(hs[d.name])}
                \cup {Decision(none, 0, 0, 0)}
        ELSE {d \in {Decision(t1, i1, t2, i2) : t1 \in ps, i1 \in idxs, t2 \in ps, i2 \in idxs} :
                d.idx < Len(hs[d.name]) /\ d.idx2 < Len(hs[d.name2])}
                \cup {Decision(none, 0, t, 0) : t \in ps}
                \cup {Decision(t, 0, none, 0) : t \in ps}

\* game.apply_effect(player, effect, decision)
\* (only PEEK looks at who decides, only DRAW and SHUFFLE at the shuffle outcome)
EngApplyEffect ==
    \E eff \in {"DRAW", "SHUFFLE", "SWAP", "PEEK"} :
    \E p \in IF eff = "PEEK" THEN DOMAIN hands ELSE {0},
       k \in IF eff \in {"DRAW", "SHUFFLE"} THEN ShuffleKeys ELSE {0},
       dec \in EngDecisions(eff, hands) :
            EngReturn(apply_effect(G, p, eff, dec, k), Label(eff, p, dec, None))

\* the answers of the players' select_card_to_discard in one iteration: for each
\* player -1, a slot of the hand, or the index one past its end
Declarations(hs) ==
    {decl \in [DOMAIN hs -> -1..(EngineHandSize + MaxCalls)] :
        \A p \in DOMAIN hs : decl[p] <= Len(hs[p])}

\* a filter that lets every index through that Python accepts for the list
ValidDiscardsAsPython(decl, hs) ==
    {p \in DOMAIN hs : -Len(hs[p]) <= decl[p] /\ decl[p] < Len(hs[p])}

\* [(p, idx) for p, idx in discard_idx if 0 <= idx < len(self.hands[p.name])]
ValidDiscards(decl, hs) ==
    {p \in DOMAIN hs : 0 <= decl[p] /\ decl[p] < Len(hs[p])}

\* list[idx] as Python reads it: a negative idx counts from the end
ListItem(s, idx) == IF idx < 0 THEN s[Len(s) + idx + 1] ELSE s[idx + 1]

\* game.allow_discards(player): the players declare, one of the valid declarers
\* is selected, and nobody declares a valid index again
EngAllowDiscards ==
    /\ pc = "engine"
    /\ ops < MaxCalls
    /\ Len(dealer.discard_pile) > 0
    /\ \E decl \in Declarations(hands) :
          LET top == Top(dealer.discard_pile)
              r == [react EXCEPT !.declared = decl]
          IN  IF ValidDiscards(decl, hands) = {}
              THEN EngReturnWith(G, Label("react_none", 0, 0, None), r)
              ELSE \E q \in ValidDiscards(decl, hands), k \in ShuffleKeys :
                      LET idx == decl[q]
                          card_to_discard == ListItem(hands[q], idx)
                      IN  IF ~Card_eq(card_to_discard, top)
                          THEN EngReturnWith(penalize(G, q, k),
                                             Label("react_penalize", q, idx, card_to_discard), r)
                          ELSE EngReturnWith(discard_positional(G, q, idx),
                                             Label("react_discard", q, idx, card_to_discard), r)

NextEngine ==
    \/ EngDiscardIdx
    \/ EngDiscardCard
    \/ EngExchange
    \/ EngPenalize
    \/ EngReveal
    \/ EngLearnCard
    \/ EngLearnOpponentCard
    \/ EngApplyEffect
    \/ EngAllowDiscards

SpecEngine == InitEngine /\ [][NextEngine]_vars

----------------------------------------------------------------------------
(* One call of allow_discards run to its end on a two-player table: the caller
   has put a card on the discard pile with game.discard(player, card=card) *)

InitReact ==
    /\ initially_known = ListKnown(<<0>>)
    /\ \E k \in ShuffleKeys :
          LET d == Dealer_init(EngineHandSize, TreasureSize, GameDeck)
              g0 == init_round([dealer |-> d, hands |-> [p \in Players |-> <<>>],
                                views |-> [p \in Players |-> PlayerView(Players, d, p)],
                                effects_queue |-> <<>>, card |-> None, err |-> NoError],
                               initially_known, k)
          IN  \E c \in TestCards(g0.hands) :
                 LET g == discard_drawn(g0, 0, c)
                 IN  /\ dealer = g.dealer
                     /\ hands = g.hands
                     /\ views = g.views
                     /\ gview = [GameView EXCEPT !.effects_queue = g.effects_queue]
                     /\ react = EnterReact(g, 0, "turn")
                     /\ last = Label("discard_card", 0, 0, c)
    /\ current_player_index = 0
    /\ caller_index = -1
    /\ round_attr = <<0>>
    /\ pc = "react"
    /\ card = None
    /\ source = "DRAW"
    /\ err = NoError
    /\ held = <<>>
    /\ ops = 0
    /\ picks = 0
    /\ final_lap = NoLap

\* an iteration with a selection; the cards of the deck are spent before the
\* count of selections is
ReactPickAny == ReactPickUpTo(2 * DeckSize)

NextReact ==
    \/ ReactNone
    \/ ReactPickAny

SpecReact == InitReact /\ [][NextReact]_vars

\* allow_discards is one loop in one thread: it makes its next iteration
SpecReactLive == SpecReact /\ WF_vars(NextReact)

----------------------------------------------------------------------------
(* Cards built one by one and asked for their effect and value, as
   tests/test_card.py does, over the 54 cards of Dealer.init_deck *)

InitCard ==
    /\ dealer = <<>>
    /\ hands = <<>>
    /\ GameIdle
    /\ pc = "card"
    /\ err = NoError
    /\ held = <<>>
    /\ last = Label("init", 0, 0, None)
    /\ ops = 0
    /\ picks = 0
    /\ final_lap = NoLap

\* what a step of the card driver leaves alone
CardUntouched ==
    UNCHANGED <<dealer, hands, views, gview, current_player_index, caller_index,
                initially_known, round_attr, pc, source, react, err, held, ops, picks,
                final_lap>>

\* card = Card(suit, rank); card.effect
CardNew ==
    /\ pc = "card"
    /\ \E c \in Range(init_deck) :
          /\ card' = Card(c.suit, c.rank)
          /\ last' = Label("Card", c.suit, c.rank, effect(Card(c.suit, c.rank)))
    /\ CardUntouched

\* card.value()
CardValue ==
    /\ pc = "card"
    /\ card # None
    /\ last' = Label("value", card.suit, card.rank, value(card))
    /\ card' = card
    /\ CardUntouched

NextCard ==
    \/ CardNew
    \/ CardValue

SpecCard == InitCard /\ [][NextCard]_vars

----------------------------------------------------------------------------
(* Game.play entered on a table whose accumulated scores already stand somewhere,
   set as tests/test_game.py sets view.scores before it asks is_finished *)

\* the standings play() is entered with: a fresh game, one player a point short of
\* the limit, one player at the limit
StandingScores ==
    {[p \in Players |-> 0],
     [p \in Players |-> IF p = 0 THEN FinishScore - 1 ELSE 0],
     [p \in Players |-> IF p = 1 THEN FinishScore ELSE 0]}

\* Game(hand_size=2, treasure_size=1) with initially_known = [0], the scores set, and
\* the first test of the game loop made
InitScored ==
    /\ dealer = Dealer_init(EngineHandSize, TreasureSize, GameDeck)
    /\ hands = [p \in Players |-> <<>>]
    /\ views = [p \in Players |-> PlayerView(Players, dealer, p)]
    /\ \E s \in StandingScores :
          /\ gview = [GameView EXCEPT !.scores = s]
          /\ pc = IF is_finished(s) THEN "game_over" ELSE "round_start"
    /\ current_player_index = 0
    /\ caller_index = -1
    /\ initially_known = ListKnown(<<0>>)
    /\ round_attr = <<0>>
    /\ card = None
    /\ source = "DRAW"
    /\ react = NoReact
    /\ err = NoError
    /\ held = <<>>
    /\ last = Label("init", 0, 0, None)
    /\ ops = 0
    /\ picks = 0
    /\ final_lap = NoLap

SpecScored == InitScored /\ [][Next]_vars

----------------------------------------------------------------------------
(* Claims about the Dealer, checked under SpecDealer *)

HandCards(hs) == LET RECURSIVE Sum(_)
                     Sum(n) == IF n = 0 THEN 0 ELSE Len(hs[n - 1]) + Sum(n - 1)
                 IN  Sum(Cardinality(DOMAIN hs))

FreshDeck(d) ==
    /\ Len(d.draw_pile) = 54
    /\ d.discard_pile = <<>>
    /\ d.treasure = <<>>

\* C3: a deal from a freshly reset deck to N empty hands fails iff 54 < N*H+T+1 and
\* then changes no pile and no hand; otherwise every hand has H cards, the treasure
\* T, the discard pile 1 and the draw pile 54-N*H-T-1.
C3_DealValidation ==
    [][(last'.op = "deal_initial_hands" /\ FreshDeck(dealer)) =>
        LET n == last'.a
            need == n * dealer.hand_size + dealer.treasure_size + 1
        IN  /\ (err' # NoError) <=> (54 < need)
            /\ (err' # NoError) =>
                  /\ dealer'.draw_pile = dealer.draw_pile
                  /\ dealer'.discard_pile = dealer.discard_pile
                  /\ dealer'.treasure = dealer.treasure
                  /\ hands' = EmptyHands(n)
            /\ (err' = NoError) =>
                  /\ DOMAIN hands' = 0..(n - 1)
                  /\ \A p \in DOMAIN hands' : Len(hands'[p]) = dealer.hand_size
                  /\ Len(dealer'.treasure) = dealer.treasure_size
                  /\ Len(dealer'.discard_pile) = 1
                  /\ Len(dealer'.draw_pile) =
                        54 - n * dealer.hand_size - dealer.treasure_size - 1]_vars

\* a deal that took exactly the 54 cards of a fresh deck
C3_Witness ==
    /\ last.op = "deal_initial_hands"
    /\ last.b = 54
    /\ err = NoError
    /\ dealer.draw_pile = <<>>
    /\ Len(dealer.discard_pile) = 1
    /\ HandCards(hands) = 50

\* C4: the k-th card popped by the deal (k = 0..N*H-1) goes to player k mod N, the
\* next T cards to the treasure and the card after those to the discard pile.
C4_RoundRobinDeal ==
    [][(last'.op = "deal_initial_hands" /\ err' = NoError) =>
        LET n == last'.a
            H == dealer.hand_size
            T == dealer.treasure_size
            dp == dealer.draw_pile
            popped(k) == dp[Len(dp) - k]
        IN  /\ \A k \in 0..(n * H - 1) :
                  At(hands'[k % n], k \div n) = popped(k)
            /\ \A t \in 0..(T - 1) :
                  At(dealer'.treasure, Len(dealer.treasure) + t) = popped(n * H + t)
            /\ dealer'.discard_pile = Append(dealer.discard_pile, popped(n * H + T))
            /\ dealer'.draw_pile = SubSeq(dp, 1, Len(dp) - n * H - T - 1)]_vars

\* a deal to at least two players that gave every hand its cards
C4_Witness ==
    /\ last.op = "deal_initial_hands"
    /\ err = NoError
    /\ last.a >= 2
    /\ \A p \in DOMAIN hands : Len(hands[p]) = dealer.hand_size

\* C5: a reshuffle on an empty draw pile and a discard pile [c1..cn], n >= 1, leaves
\* the discard pile equal to [cn] and the draw pile a permutation of c1..c(n-1);
\* with an empty discard pile both piles end empty.
C5_Reshuffle ==
    [][(last'.op = "reshuffle_discard_into_draw" /\ dealer.draw_pile = <<>>) =>
        IF Len(dealer.discard_pile) >= 1
        THEN /\ dealer'.discard_pile = <<Top(dealer.discard_pile)>>
             /\ IsPermutation(dealer'.draw_pile, Pop(dealer.discard_pile))
        ELSE /\ dealer'.discard_pile = <<>>
             /\ dealer'.draw_pile = <<>>]_vars

\* a reshuffle of three discarded cards onto an empty draw pile
C5_Witness ==
    /\ last.op = "reshuffle_discard_into_draw"
    /\ last.a = 0
    /\ last.b = 3
    /\ Len(dealer.draw_pile) = 2
    /\ Len(dealer.discard_pile) = 1

\* C6: draw_from_draw pops the top of a non-empty draw pile and leaves the discard
\* pile alone; on an empty draw pile with at least 2 discards it returns a card from
\* below the discard top and leaves that top as the only discard; on an empty draw
\* pile with 0 or 1 discards it fails and both piles keep their contents.
C6_DrawFromDraw ==
    [][(last'.op = "draw_from_draw") =>
        IF Len(dealer.draw_pile) > 0
        THEN /\ err' = NoError
             /\ last'.ret = Top(dealer.draw_pile)
             /\ dealer'.draw_pile = Pop(dealer.draw_pile)
             /\ dealer'.discard_pile = dealer.discard_pile
        ELSE IF Len(dealer.discard_pile) >= 2
        THEN /\ err' = NoError
             /\ last'.ret \in Range(Pop(dealer.discard_pile))
             /\ dealer'.discard_pile = <<Top(dealer.discard_pile)>>
             /\ IsPermutation(Append(dealer'.draw_pile, last'.ret), Pop(dealer.discard_pile))
        ELSE /\ err' = "ValueError: Deck is empty."
             /\ dealer'.draw_pile = dealer.draw_pile
             /\ dealer'.discard_pile = dealer.discard_pile]_vars

\* a draw that had to reshuffle at least two discards
C6_Witness ==
    /\ last.op = "draw_from_draw"
    /\ last.a = 0
    /\ last.b >= 2
    /\ err = NoError
    /\ last.ret # None
    /\ Len(dealer.discard_pile) = 1

\* C7: after every mutating Dealer operation, the Dealer.View shows the draw pile's
\* current size and the discard pile's current contents.
C7_DealerViewFresh ==
    /\ dealer.view.draw_pile_size = Len(dealer.draw_pile)
    /\ dealer.view.discard_pile = dealer.discard_pile

----------------------------------------------------------------------------
(* Claims about a game, checked under Spec *)

\* the cards of all hands, player by player
RECURSIVE CardsInHands(_, _)
CardsInHands(hs, n) ==
    IF n = 0 THEN <<>> ELSE CardsInHands(hs, n - 1) \o hs[n - 1]

\* the card play() holds between the draw and the exchange
InFlight == IF pc = "exchange" THEN <<card>> ELSE <<>>

\* every card the game holds anywhere
AllCards ==
    dealer.draw_pile \o dealer.discard_pile \o dealer.treasure
        \o CardsInHands(hands, Len(Names)) \o InFlight

\* C1: while a game runs, the draw pile, the discard pile, the treasure, the hands
\* and the drawn card in flight together hold exactly the cards of the deck, each
\* exactly once.
C1_Conservation ==
    pc # "aborted" => IsPermutation(AllCards, dealer.deck)

\* C2: when init_round has run, each hand holds exactly hand_size cards, all of
\* them dealt in this round (together with the piles they make up the deck).
C2_FreshHands ==
    (last.op = "init_round" /\ pc # "aborted") =>
        /\ \A p \in Players : Len(hands[p]) = dealer.hand_size
        /\ IsPermutation(AllCards, dealer.deck)

\* the players after c in seating order
OthersAfter(c) == [i \in 1..(Len(Names) - 1) |-> (c + i) % Len(Names)]

\* C8: after the round's first call the other players take one turn each in seating
\* order, the caller takes none, and then the round ends; without a call the round
\* does not end.
C8_FinalLap ==
    /\ pc = "round_end" => final_lap.caller >= 0
    /\ final_lap.caller >= 0 =>
          /\ Len(final_lap.turns) <= Len(Names) - 1
          /\ final_lap.turns = SubSeq(OthersAfter(final_lap.caller), 1, Len(final_lap.turns))
          /\ pc = "round_end" => final_lap.turns = OthersAfter(final_lap.caller)
          /\ pc = "draw" => final_lap.turns # OthersAfter(final_lap.caller)

\* C9: at round end each non-caller's total grows by the point sum of their hand;
\* the caller's grows by 0 if every other hand sums to strictly more than the
\* caller's, and by twice the caller's hand sum otherwise.
C9_Scoring ==
    [][last'.op = "end_round" =>
        LET c == caller_index
            sum(p) == HandValue(hands[p])
            lowest == \A q \in Players \ {c} : sum(q) > sum(c)
        IN  \A p \in Players :
                gview'.scores[p] - gview.scores[p] =
                    IF p # c THEN sum(p)
                    ELSE IF lowest THEN 0 ELSE 2 * sum(c)]_vars

\* a first round ended on a call that tied with the other hand: the caller's hand
\* counted twice
C9_Witness ==
    /\ last.op = "end_round"
    /\ gview.round = 1
    /\ \E q \in Players \ {caller_index} :
          HandValue(hands[q]) = HandValue(hands[caller_index])
    /\ HandValue(hands[caller_index]) > 0
    /\ gview.scores[caller_index] = 2 * HandValue(hands[caller_index])

\* C10: a valid call index returned by a player who holds exactly one card, when
\* nobody has called yet, makes that player the caller; no card is discarded and
\* the hand stays at one card.
C10_OneCardCall ==
    [][(pc = "call" /\ last'.op = "call" /\ pc' # "aborted"
            /\ Len(hands[current_player_index]) = 1 /\ last'.b = 0
            /\ caller_index < 0) =>
        /\ caller_index' = current_player_index
        /\ hands' = hands
        /\ dealer'.discard_pile = dealer.discard_pile]_vars

\* C11: a call index within a hand of more than one card moves that card from the
\* hand to the top of the discard pile, makes the acting player the caller and runs
\* the reactive discard phase once more, after which the turn is over; an index of
\* -1 or out of range changes neither the caller nor the hands nor the discard pile.
C11_CallStep ==
    [][/\ (pc = "call" /\ last'.op = "call" /\ pc' # "aborted") =>
            LET p == current_player_index
                idx == last'.b
                h == hands[p]
            IN  IF 0 <= idx /\ idx < Len(h)
                THEN Len(h) > 1 =>
                        /\ hands' = [hands EXCEPT ![p] = PopAt(h, idx)]
                        /\ dealer'.discard_pile = Append(dealer.discard_pile, At(h, idx))
                        /\ caller_index' = p
                        /\ pc' = "react"
                        /\ react' = [card |-> At(h, idx), player |-> p,
                                     phase |-> "call", iters |-> 0,
                                     declared |-> <<>>]
                ELSE /\ caller_index' = caller_index
                     /\ hands' = hands
                     /\ dealer'.discard_pile = dealer.discard_pile
       /\ (pc = "react" /\ react.phase = "call" /\ pc' \notin {"react", "aborted"}) =>
            /\ pc' \in {"draw", "round_end"}
            /\ current_player_index' = (current_player_index + 1) % Len(Names)
            /\ caller_index' = caller_index]_vars

\* the acting player has just called with a card of a two-card hand
C11_Witness ==
    /\ last.op = "call"
    /\ pc = "react"
    /\ react.phase = "call"
    /\ caller_index = current_player_index
    /\ Len(hands[current_player_index]) = 1
    /\ Top(dealer.discard_pile) = react.card

\* C12: after a draw from the discard pile a negative exchange answer is asked
\* again and changes no hand, pile or view; the answer the engine finally acts on
\* is not negative, the drawn card then sits in the actor's hand at that index and
\* the card put on the discard pile is the one it replaced.
C12_DiscardDrawKept ==
    [][/\ last'.op = "reprompt" =>
            /\ source = "DISCARD"
            /\ pc' = "exchange"
            /\ <<dealer, hands, views, gview, card, source>>' =
                    <<dealer, hands, views, gview, card, source>>
       /\ (pc = "exchange" /\ source = "DISCARD" /\ last'.op = "exchange"
                /\ pc' # "aborted") =>
            LET p == current_player_index
                idx == last'.b
            IN  /\ 0 <= idx /\ idx < Len(hands[p])
                /\ hands' = [hands EXCEPT ![p][idx + 1] = card]
                /\ dealer'.discard_pile = Append(dealer.discard_pile, At(hands[p], idx))]_vars

\* a card drawn from the discard pile has been exchanged into the actor's hand
C12_Witness ==
    /\ last.op = "exchange"
    /\ source = "DISCARD"
    /\ pc # "aborted"
    /\ At(hands[last.a], last.b) = last.ret
    /\ last.ret \notin Range(dealer.discard_pile)

\* C13: after an exchange into hand slot idx the actor's own view of that slot is
\* the card now held there; each opponent's view of the slot becomes that card when
\* the card was drawn from the discard pile and is left as it was when the card was
\* drawn from the draw pile.
C13_ExchangeReveal ==
    [][(pc = "exchange" /\ last'.op = "exchange" /\ last'.b >= 0 /\ pc' # "aborted") =>
        LET p == current_player_index
            idx == last'.b
        IN  /\ At(hands'[p], idx) = card
            /\ At(views'[p].hand, idx) = card
            /\ \A q \in Players \ {p} :
                  IF source = "DISCARD"
                  THEN views'[q].opponents_hands[p] =
                            [views[q].opponents_hands[p] EXCEPT ![idx + 1] = card]
                  ELSE views'[q].opponents_hands[p] = views[q].opponents_hands[p]]_vars

\* a card taken from the discard pile sits in the actor's hand and in every view of it
C13_Witness ==
    /\ last.op = "exchange"
    /\ last.b >= 0
    /\ source = "DISCARD"
    /\ pc # "aborted"
    /\ At(views[last.a].hand, last.b) = last.ret
    /\ \A q \in Players \ {last.a} : At(views[q].opponents_hands[last.a], last.b) = last.ret

\* the names of the effects a card can carry
EffectNames == {"DRAW", "SHUFFLE", "SWAP", "PEEK"}

\* C15: the discards of a turn queue their effects behind the pending ones under
\* the discarding player's name; each pass of the resolution phase resolves the
\* oldest pending effect, decided by the player queued with it, and shortens the
\* queue by that one entry; the phase always comes to an end; the queue is empty whenever the
\* acting player's call decision is requested.
C15_EffectsFifo ==
    /\ [][/\ (pc = "exchange" /\ last'.op = "exchange" /\ pc' # "aborted") =>
               gview'.effects_queue =
                   Append(gview.effects_queue, <<current_player_index, effect(Top(dealer'.discard_pile))>>)
                   \/ (effect(Top(dealer'.discard_pile)) = "NONE"
                           /\ gview'.effects_queue = gview.effects_queue)
          /\ (pc = "effects" /\ pc' # "aborted") =>
               /\ gview.effects_queue # <<>>
               /\ last'.op = gview.effects_queue[1][2]
               /\ last'.a = gview.effects_queue[1][1]
               /\ gview'.effects_queue = Tail(gview.effects_queue)
               /\ pc' \in {"effects", "call"}
          /\ pc' = "call" => gview'.effects_queue = <<>>
          /\ pc' = "effects" => gview'.effects_queue # <<>>]_vars
    /\ ((pc = "effects") ~> (pc # "effects"))

\* an effect queued in an earlier turn by the other player has been resolved first,
\* and one queued in this turn is still pending
C15_Witness ==
    /\ pc = "effects"
    /\ last.op \in EffectNames
    /\ last.a # current_player_index
    /\ gview.effects_queue # <<>>
    /\ gview.effects_queue[1][1] = current_player_index

----------------------------------------------------------------------------
(* Claims about the Game's methods, checked under SpecEngine *)

\* the effects queue after player p has discarded card c
QueueAfter(queue, p, c) ==
    IF effect(c) # "NONE" THEN Append(queue, <<p, effect(c)>>) ELSE queue

\* what a discard of hand slot idx of player p has to leave behind
DiscardedByIndex(p, idx) ==
    LET c == At(hands[p], idx)
    IN  /\ dealer'.discard_pile = Append(dealer.discard_pile, c)
        /\ gview'.effects_queue = QueueAfter(gview.effects_queue, p, c)
        /\ hands' = [hands EXCEPT ![p] = PopAt(@, idx)]
        /\ views'[p].hand = PopAt(views[p].hand, idx)
        /\ \A q \in DOMAIN hands \ {p} :
              views'[q].opponents_hands[p] = PopAt(views[q].opponents_hands[p], idx)

\* C14: every discard pushes the card on top of the discard pile and appends one
\* (player, effect) pair to the effects queue exactly when the card has an effect;
\* a discard by hand index, a reactive match included, also removes the slot from
\* the true hand, from the player's own view and from every opponent's view.
C14_Discard ==
    [][/\ last'.op = "discard_card" =>
            /\ dealer'.discard_pile = Append(dealer.discard_pile, last'.ret)
            /\ gview'.effects_queue = QueueAfter(gview.effects_queue, last'.a, last'.ret)
            /\ hands' = hands
       /\ (last'.op = "discard_idx" /\ 0 <= last'.b /\ last'.b < Len(hands[last'.a])) =>
            DiscardedByIndex(last'.a, last'.b)
       /\ last'.op = "react_discard" => DiscardedByIndex(last'.a, last'.b)]_vars

\* every entry of a view list is unknown
AllUnknown(entries) == \A i \in 1..Len(entries) : entries[i] = None

\* C16: after a SHUFFLE effect on target T, T's true hand is a permutation of its
\* previous contents and every view of T's hand, T's own and each opponent's,
\* holds only unknown entries.
C16_ShuffleWipes ==
    [][(last'.op = "SHUFFLE" /\ pc' # "aborted") =>
        LET t == last'.b.name
        IN  /\ IsPermutation(hands'[t], hands[t])
            /\ \A q \in DOMAIN hands \ {t} : hands'[q] = hands[q]
            /\ AllUnknown(views'[t].hand)
            /\ \A q \in DOMAIN hands \ {t} : AllUnknown(views'[q].opponents_hands[t])]_vars

\* C17: a SWAP effect with decision (A,i,B,j), A and B distinct and both indices in
\* range, puts B's former card j in A's slot i and A's former card i in B's slot j;
\* every other hand position, every pile, the effects queue and the scores are
\* unchanged.
C17_SwapCards ==
    [][(last'.op = "SWAP" /\ last'.b.name # last'.b.name2
            /\ {last'.b.name, last'.b.name2} \subseteq DOMAIN hands) =>
        LET A == last'.b.name
            i == last'.b.idx
            B == last'.b.name2
            j == last'.b.idx2
        IN  /\ err' = NoError
            /\ hands' = [hands EXCEPT ![A][i + 1] = At(hands[B], j),
                                      ![B][j + 1] = At(hands[A], i)]
            /\ dealer' = dealer
            /\ gview' = gview]_vars

\* two different players' cards have changed hands
C17_Witness ==
    /\ last.op = "SWAP"
    /\ last.b.name # last.b.name2
    /\ pc = "engine"
    /\ At(hands[last.b.name], last.b.idx) # At(hands[last.b.name2], last.b.idx2)

\* what observer o records in the views vs about slot k of player t's hand
Knows(vs, o, t, k) ==
    IF o = t THEN At(vs[o].hand, k) ELSE At(vs[o].opponents_hands[t], k)

\* no recorded entry differs from the card truly held at its position
ViewsAgree(hs, vs) ==
    \A o \in DOMAIN hs, t \in DOMAIN hs :
        \A k \in 0..(Len(hs[t]) - 1) :
            Knows(vs, o, t, k) # None => Knows(vs, o, t, k) = At(hs[t], k)

\* C18: after a SWAP decision (A,i,B,j) between distinct players every observer's
\* entries about (A,i) and (B,j) have changed places and every other entry is as it
\* was; if no view entry contradicted the true hands before the swap, none
\* contradicts them after it.
C18_SwapKnowledge ==
    [][(last'.op = "SWAP" /\ last'.b.name # last'.b.name2
            /\ {last'.b.name, last'.b.name2} \subseteq DOMAIN hands) =>
        LET A == last'.b.name
            i == last'.b.idx
            B == last'.b.name2
            j == last'.b.idx2
        IN  /\ err' = NoError
            /\ \A o \in DOMAIN hands :
                  /\ Knows(views', o, A, i) = Knows(views, o, B, j)
                  /\ Knows(views', o, B, j) = Knows(views, o, A, i)
                  /\ \A t \in DOMAIN hands : \A k \in 0..(Len(hands[t]) - 1) :
                        (<<t, k>> # <<A, i>> /\ <<t, k>> # <<B, j>>) =>
                            Knows(views', o, t, k) = Knows(views, o, t, k)
            /\ ViewsAgree(hands, views) => ViewsAgree(hands', views')]_vars

\* a third player, and B, knew A's card before the swap and now know it in B's hand
C18_Witness ==
    /\ last.op = "SWAP"
    /\ last.b.name # last.b.name2
    /\ pc = "engine"
    /\ ViewsAgree(hands, views)
    /\ Knows(views, last.b.name2, last.b.name2, last.b.idx2) # None
    /\ \E o \in DOMAIN hands \ {last.b.name, last.b.name2} :
          Knows(views, o, last.b.name2, last.b.idx2) = At(hands[last.b.name2], last.b.idx2)

\* C19: a PEEK effect with decision (target, idx) sets the acting player's entry
\* about (target, idx) to the card truly held there, the own-hand entry if the
\* target is the actor and the opponent entry otherwise; no other entry of any view,
\* no hand and no pile changes.
C19_Peek ==
    [][(last'.op = "PEEK" /\ last'.b.name \in DOMAIN hands) =>
        LET p == last'.a
            t == last'.b.name
            k == last'.b.idx
            c == At(hands[t], k)
        IN  /\ err' = NoError
            /\ views' = IF t = p
                        THEN [views EXCEPT ![p].hand[k + 1] = c]
                        ELSE [views EXCEPT ![p].opponents_hands[t][k + 1] = c]
            /\ hands' = hands
            /\ dealer' = dealer
            /\ gview' = gview]_vars

\* a player has peeked at an opponent's card and nobody else has learned it
C19_Witness ==
    /\ last.op = "PEEK"
    /\ pc = "engine"
    /\ last.b.name \in DOMAIN hands \ {last.a}
    /\ Knows(views, last.a, last.b.name, last.b.idx) = At(hands[last.b.name], last.b.idx)
    /\ \A o \in DOMAIN hands \ {last.a} : Knows(views, o, last.b.name, last.b.idx) = None

\* the player a penalty step has penalized: the one named by a DRAW decision, the
\* one selected with a wrong reactive discard, or the one handed to penalize
Penalized(l) == IF l.op = "DRAW" THEN l.b.name ELSE l.a

\* C20: a penalty takes one card from the draw pile, after a reshuffle of the
\* discards below the top if the draw pile is empty, and appends it to the end of
\* the penalized player's hand; that player's own view and every opponent's view of
\* that hand get one unknown entry at the end; every other view entry, every other
\* hand and the treasure are unchanged.
C20_Penalty ==
    [][(last'.op \in {"penalize", "react_penalize", "DRAW"} /\ pc' # "aborted") =>
        LET p == Penalized(last')
            c == Top(hands'[p])
        IN  /\ hands' = [hands EXCEPT ![p] = Append(@, c)]
            /\ IF Len(dealer.draw_pile) > 0
               THEN /\ c = Top(dealer.draw_pile)
                    /\ dealer'.draw_pile = Pop(dealer.draw_pile)
                    /\ dealer'.discard_pile = dealer.discard_pile
               ELSE /\ dealer'.discard_pile = <<Top(dealer.discard_pile)>>
                    /\ IsPermutation(Append(dealer'.draw_pile, c), Pop(dealer.discard_pile))
            /\ dealer'.treasure = dealer.treasure
            /\ views' = [q \in DOMAIN hands |->
                            IF q = p
                            THEN [views[q] EXCEPT !.hand = Append(@, None)]
                            ELSE [views[q] EXCEPT !.opponents_hands[p] = Append(@, None)]]]_vars

\* a player has been penalized from an empty draw pile, refilled from the discards
C20_Witness ==
    /\ last.op = "penalize"
    /\ last.b = 0
    /\ pc = "engine"
    /\ Len(dealer.discard_pile) = 1
    /\ Len(hands[last.a]) = EngineHandSize + 1
    /\ Top(views[last.a].hand) = None
    /\ \A q \in DOMAIN hands \ {last.a} :
          Len(views[q].opponents_hands[last.a]) = Len(hands[last.a])

\* the hand of player p has grown by one card behind the cards it held
HandGrew(p) ==
    /\ Len(hands'[p]) = Len(hands[p]) + 1
    /\ SubSeq(hands'[p], 1, Len(hands[p])) = hands[p]

\* C21: a selected reactive declaration that equals the discard-pile top is
\* discarded without an error: the card leaves the hand and the slot leaves every
\* view, the card lies on top of the discard pile and its effect, if any, is queued
\* for the player; one that differs costs a penalty card, and (while the draw pile
\* can serve it) the cards already held and the discard pile stay as they were.
C21_ReactiveMatch ==
    [][/\ last'.op = "react_discard" =>
            /\ err' = NoError
            /\ Top(dealer'.discard_pile) = last'.ret
            /\ DiscardedByIndex(last'.a, last'.b)
       /\ (last'.op = "react_penalize" /\ dealer.draw_pile # <<>>) =>
            /\ HandGrew(last'.a)
            /\ \A q \in DOMAIN hands \ {last'.a} : hands'[q] = hands[q]
            /\ dealer'.discard_pile = dealer.discard_pile]_vars

----------------------------------------------------------------------------
(* Claims about the start and the end of a round, checked under Spec *)

\* init_round has dealt a card to every player in this step
RoundDealt ==
    /\ last'.op = "init_round"
    /\ \A p \in Players : Len(hands'[p]) > Len(hands[p])

\* C22: once init_round has dealt, every player's own view knows exactly the first
\* initially_known slots of the hand, each as the card truly held there, and no other
\* slot; every entry about an opponent's hand and about the treasure is unknown,
\* drawn_card is empty and caller_index is -1.
C22_InitRoundKnowledge ==
    [][RoundDealt =>
        /\ caller_index' = -1
        /\ \A p \in Players :
              /\ views'[p].drawn_card = None
              /\ \A i \in 0..(Len(views'[p].hand) - 1) :
                    At(views'[p].hand, i) =
                        IF i < initially_known.count THEN At(hands'[p], i) ELSE None
              /\ \A q \in Players \ {p} : AllUnknown(views'[p].opponents_hands[q])
              /\ AllUnknown(views'[p].treasure)]_vars

\* C23: the round that init_round has dealt is started by player 0 when it is the
\* first round of the game and otherwise by the lowest-indexed player among those
\* with the highest accumulated score.
C23_StartingPlayer ==
    [][(RoundDealt /\ initially_known.is_list) =>
        /\ pc' = "draw"
        /\ current_player_index' =
              IF gview.round = 0 THEN 0 ELSE IndexOfMax(gview.scores)]_vars

\* some player's accumulated score has reached the limit
LimitReached == \E p \in Players : gview.scores[p] >= FinishScore

\* C24: the game loop stands at its end exactly when some accumulated score is at
\* least 100 and at the start of a round exactly when none is; a round is started
\* only from scores below the limit; the scores change, and the game ends, only in
\* the step that ends a round, which leads to the end of the game when the limit is
\* reached and to a new round otherwise; a round ends only when the turn has come
\* back to the caller.
C24_GameEnd ==
    /\ [](pc = "game_over" => LimitReached)
    /\ [](pc = "round_start" => ~LimitReached)
    /\ [][/\ last'.op = "init_round" => ~LimitReached
          /\ gview'.scores # gview.scores => last'.op = "end_round"
          /\ pc' = "game_over" => last'.op = "end_round"
          /\ last'.op = "end_round" =>
                pc' = IF LimitReached' THEN "game_over" ELSE "round_start"
          /\ pc' = "round_end" =>
                /\ caller_index' >= 0
                /\ current_player_index' = caller_index']_vars

\* a round has been played to its end from scores below the limit and has ended the
\* game
C24_Witness ==
    /\ pc = "game_over"
    /\ last.op = "end_round"
    /\ gview.round > 0
    /\ LimitReached

----------------------------------------------------------------------------
(* Claims about Card, checked under SpecCard *)

\* the effect the rules give to a card of this suit and rank
EffectTable(suit, rank) ==
    CASE rank = "K" /\ suit \in {"HEARTS", "DIAMONDS"} -> "SHUFFLE"
      [] rank = "K" /\ suit \in {"SPADES", "CLUBS"} -> "DRAW"
      [] rank = "Q" -> "SWAP"
      [] rank = "J" -> "PEEK"
      [] OTHER -> "NONE"

\* C25: a card of the 54-card deck built from (suit, rank) carries SHUFFLE when it
\* is the king of hearts or diamonds, DRAW when it is the king of spades or clubs,
\* SWAP when it is a queen, PEEK when it is a jack and NONE otherwise, the two jokers
\* included.
C25_EffectTable ==
    last.op = "Card" =>
        /\ card = Card(last.a, last.b)
        /\ card \in Range(init_deck)
        /\ last.ret = EffectTable(last.a, last.b)
        /\ IsJoker(card) => last.ret = "NONE"

\* the king of clubs has been built and carries DRAW
C25_Witness ==
    /\ last.op = "Card"
    /\ card = Card("CLUBS", "K")
    /\ last.ret = "DRAW"

\* the points the rules give to a rank
ValueTable(rank) ==
    CASE rank \in {"JOKER_RED", "JOKER_BLACK"} -> 0
      [] rank \in {"J", "Q", "K"} -> 10
      [] rank = "A" -> 1
      [] rank = "2" -> 2 [] rank = "3" -> 3 [] rank = "4" -> 4 [] rank = "5" -> 5
      [] rank = "6" -> 6 [] rank = "7" -> 7 [] rank = "8" -> 8 [] rank = "9" -> 9
      [] rank = "10" -> 10

\* C26: value() of a card of the deck is 0 for a joker, 10 for a jack, queen or king,
\* 1 for an ace and the number of the rank for 2..10, whatever the suit.
C26_ValueTable ==
    last.op = "value" =>
        /\ card = Card(last.a, last.b)
        /\ card \in Range(init_deck)
        /\ last.ret = ValueTable(last.b)

\* the ace of diamonds has been asked for its value
C26_Witness ==
    /\ last.op = "value"
    /\ card = Card("DIAMONDS", "A")
    /\ last.ret = 1

----------------------------------------------------------------------------
(* Claims about the players' views and the reactive phase, checked under SpecEngine *)

\* a call that failed and changed nothing
FailedUnchanged ==
    /\ err' # NoError
    /\ pc' = "aborted"
    /\ views' = views
    /\ hands' = hands
    /\ dealer' = dealer
    /\ gview' = gview

\* C27: learn_card(idx, card) with 0 <= idx < len(view.hand) sets that entry of the
\* player's own view and nothing else, and with any other index fails and changes
\* nothing; learn_opponent_card(opponent, idx, card) sets that entry of the view of
\* that opponent's hand and nothing else when the opponent is recorded and the index
\* is inside the recorded hand, and fails and changes nothing otherwise.
C27_Learn ==
    [][/\ last'.op = "learn_card" =>
            LET p == last'.a
                idx == last'.b
            IN  IF 0 <= idx /\ idx < Len(views[p].hand)
                THEN /\ err' = NoError
                     /\ views' = [views EXCEPT ![p].hand[idx + 1] = last'.ret]
                     /\ hands' = hands /\ dealer' = dealer /\ gview' = gview
                ELSE FailedUnchanged
       /\ last'.op = "learn_opponent_card" =>
            LET p == last'.a
                o == last'.b.name
                idx == last'.b.idx
            IN  IF /\ o \in DOMAIN hands \ {p}
                   /\ 0 <= idx /\ idx < Len(views[p].opponents_hands[o])
                THEN /\ err' = NoError
                     /\ views' = [views EXCEPT ![p].opponents_hands[o][idx + 1] = last'.ret]
                     /\ hands' = hands /\ dealer' = dealer /\ gview' = gview
                ELSE FailedUnchanged]_vars

\* a player has recorded, in its second call, a card in its own view at a slot
\* where it holds another one
C27_Witness ==
    /\ last.op = "learn_card"
    /\ pc = "engine"
    /\ ops = 2
    /\ At(views[last.a].hand, last.b) = last.ret
    /\ At(hands[last.a], last.b) # last.ret

\* the decision dec on effect eff names a player the game does not have
NamesNonPlayer(eff, dec) ==
    \/ dec.name \notin DOMAIN hands
    \/ eff = "SWAP" /\ dec.name2 \notin DOMAIN hands

ReactOps == {"react_none", "react_penalize", "react_discard"}

\* C29: in an iteration of the reactive phase the selected player is one of those
\* whose declared index lies inside their true hand, and is dealt with at that index;
\* nobody is selected exactly when there is no such player; every player who is not
\* the selected one, in particular one who declared -1 or an index past the hand,
\* keeps the hand and the views of it as they were.
C29_ValidCandidates ==
    [][last'.op \in ReactOps =>
        LET decl == react'.declared
            valid == {p \in DOMAIN hands : 0 <= decl[p] /\ decl[p] < Len(hands[p])}
            selected == IF last'.op = "react_none" THEN {} ELSE {last'.a}
        IN  /\ selected \subseteq valid
            /\ (selected = {}) <=> (valid = {})
            /\ \A p \in selected : last'.b = decl[p]
            /\ selected = {} => (dealer' = dealer /\ err' = NoError)
            /\ \A q \in DOMAIN hands \ selected :
                  /\ hands'[q] = hands[q]
                  /\ views'[q].hand = views[q].hand
                  /\ \A o \in DOMAIN hands \ {q} :
                        views'[o].opponents_hands[q] = views[o].opponents_hands[q]]_vars

\* one player declared -1, another an index past the hand, and the third, the only
\* valid declarer, was selected and penalized
C29_Witness ==
    /\ last.op = "react_penalize"
    /\ pc = "engine"
    /\ \E q, o \in DOMAIN hands \ {last.a} :
          /\ q # o
          /\ react.declared[q] = -1
          /\ react.declared[o] = Len(hands[o])

----------------------------------------------------------------------------
(* Claim about the loop of the reactive phase, checked under Spec *)

\* C30: the reactive phase goes into another iteration only after an iteration in
\* which a player was selected, the declared card matched the top of the discard
\* pile and was discarded, and that discard carries an effect; after an iteration
\* without a valid declaration and after one that ended in a penalty it stops.
C30_ReactLoop ==
    [][/\ (pc = "react" /\ pc' = "react") =>
            /\ last'.op = "react_discard"
            /\ effect(Top(dealer'.discard_pile)) # "NONE"
       /\ (pc = "react" /\ last'.op \in {"react_none", "react_penalize"}) =>
            pc' # "react"]_vars

----------------------------------------------------------------------------
(* Claims about one run of the reactive phase, checked under SpecReactLive *)

\* C31: the reactive phase ends exactly after an iteration without a valid
\* declaration or when the captured top card has no effect, and it ends by
\* returning; with a top card without effect at most one selection is made; every
\* run of the phase returns after finitely many iterations.
C31_ReactTerminates ==
    /\ [][pc = "react" =>
            /\ pc' # "aborted"
            /\ (pc' # "react") <=>
                    (last'.op = "react_none" \/ effect(react.card) = "NONE")
            /\ effect(react.card) = "NONE" => picks' <= 1]_vars
    /\ ((pc = "react") ~> (pc \in {"effects", "call"}))

----------------------------------------------------------------------------
(* Claims about the turns of a round, checked under Spec *)

\* s is an initial stretch of t
IsPrefix(s, t) == Len(s) <= Len(t) /\ SubSeq(t, 1, Len(s)) = s

\* C32: the call discard queues its effect and the turn goes on to the reactive
\* phase or to its end, never to the resolution of effects; the reactive phase after
\* a call only adds to the queue and ends the turn; in the next turn what is pending
\* stays at the head of the queue, ahead of what that turn queues, up to that turn's
\* resolution phase, which empties the queue before the call decision; a round never
\* ends with an effect pending.
C32_CallEffectDeferred ==
    [][pc' # "aborted" =>
        /\ (pc = "call" /\ 0 <= last'.b /\ last'.b < Len(hands[last'.a])
                /\ Len(hands[last'.a]) > 1) =>
              /\ gview'.effects_queue =
                    QueueAfter(gview.effects_queue, last'.a, At(hands[last'.a], last'.b))
              /\ pc' \in {"react", "draw"}
        /\ (pc = "react" /\ react.phase = "call") =>
              /\ IsPrefix(gview.effects_queue, gview'.effects_queue)
              /\ pc' \in {"react", "draw"}
        /\ pc \in {"draw", "exchange", "react"} =>
              IsPrefix(gview.effects_queue, gview'.effects_queue)
        /\ pc' \in {"call", "round_end"} => gview'.effects_queue = <<>>]_vars

\* the effect of the caller's call discard is at the head of the queue in the next
\* player's resolution phase, ahead of an effect queued in that turn
C32_Witness ==
    /\ pc = "effects"
    /\ caller_index >= 0
    /\ caller_index # current_player_index
    /\ Len(gview.effects_queue) = 2
    /\ gview.effects_queue[1][1] = caller_index
    /\ gview.effects_queue[2][1] = current_player_index

\* what is known about a hand: entries, a list of cards and unknowns, agree with the
\* hand wherever they hold a card
EntriesTrue(entries, hand) ==
    \A k \in 1..Min(Len(entries), Len(hand)) : entries[k] # None => entries[k] = hand[k]

\* C33: every entry of a player's view of the own hand and of an opponent's hand
\* that holds a card holds the card that is at that position of the true hand.
C33_ViewsTrue ==
    pc # "aborted" =>
        \A o \in Players :
            /\ EntriesTrue(views[o].hand, hands[o])
            /\ \A t \in Players \ {o} : EntriesTrue(views[o].opponents_hands[t], hands[t])

\* the positions of play() inside a round
InRound == pc \in {"draw", "exchange", "react", "effects", "call", "round_end"}

\* C34: inside a round, for every player the own view of the hand and every
\* opponent's view of it have as many entries as the hand has cards.
C34_ViewLengths ==
    InRound =>
        \A p \in Players :
            /\ Len(views[p].hand) = Len(hands[p])
            /\ \A o \in Players \ {p} : Len(views[o].opponents_hands[p]) = Len(hands[p])

\* C35: inside a round a caller_index that names a player keeps its value with
\* every step, up to the start of the next round; a turn of the final lap is
\* followed by the next player's turn or, when the turn comes back to the caller,
\* by the end of the round.
C35_CallerFixed ==
    [][(caller_index >= 0 /\ pc # "round_start" /\ pc' # "aborted") =>
        /\ caller_index' = caller_index
        /\ (pc \in {"call", "react"} /\ pc' \in {"draw", "round_end"}) =>
              ((pc' = "round_end") <=> (current_player_index' = caller_index))]_vars

\* C36: the effects queue is empty when the turn loop of a round is left, when the
\* scores of the round have been computed and when the next round is dealt.
C36_QueueEmptyAtRoundEnd ==
    /\ pc \in {"round_end", "round_start", "game_over"} => gview.effects_queue = <<>>
    /\ last.op \in {"end_round", "init_round"} => gview.effects_queue = <<>>

\* a round has ended whose caller discarded a card with an effect when calling, the
\* other player having discarded on top of it in the last turn
C36_Witness ==
    /\ pc = "round_end"
    /\ caller_index >= 0
    /\ last.op = "call"
    /\ last.a # caller_index
    /\ Len(dealer.discard_pile) >= 2
    /\ effect(dealer.discard_pile[Len(dealer.discard_pile) - 1]) # "NONE"
    /\ Len(hands[caller_index]) = 1


-----------------------------------------------------------------------------
(* C37: whenever select_draw_pile is asked, the discard pile is non-empty, so
   a draw from the discard pile never raises "Discard pile is empty."; this
   holds after draws from the discard pile, reshuffles and penalties *)
C37_DiscardAvailable ==
    [][/\ pc' = "draw" => Len(dealer'.discard_pile) > 0
       /\ (pc = "draw" /\ source' = "DISCARD") =>
             /\ Len(dealer.discard_pile) > 0
             /\ pc' = "exchange"
             /\ err' = NoError
             /\ card' = Top(dealer.discard_pile)]_vars

\* a draw pile is selected right after a turn that drew from the discard pile
C37_Witness ==
    /\ pc = "draw"
    /\ ops >= 1
    /\ source = "DISCARD"
    /\ Len(dealer.discard_pile) = 1


-----------------------------------------------------------------------------
(* C38: whenever a strategy decision is requested (draw pile, exchange,
   reactive discard, effect, call), Game.View.current_player_index equals
   Game.current_player_index, the first turn of a round included *)
DecisionPoint == pc \in {"draw", "exchange", "react", "effects", "call"}

C38_ViewPlayerCurrent ==
    DecisionPoint => gview.current_player_index = current_player_index


-----------------------------------------------------------------------------
(* C39: while the cards of the deck are conserved and pairwise distinct, no
   card of a hand equals the top of the discard pile; every selection of the
   reactive phase then ends in a penalty, never in a discard, and no hand
   gets shorter during a reactive phase *)
PairwiseDistinct(s) == \A i, j \in 1..Len(s) : s[i] = s[j] => i = j

ConservedDistinct == IsPermutation(AllCards, dealer.deck) /\ PairwiseDistinct(AllCards)

-----------------------------------------------------------------------------
(* C40: a SWAP decision (A,i,A,j) naming one player twice, with both indices in
   range and i # j, completes without error: A's cards i and j change places
   in the true hand, and so do the entries about them in A's own view and in
   every opponent's view of A's hand *)
C40_SwapSamePlayer ==
    [][(last'.op = "SWAP" /\ last'.b.name = last'.b.name2
            /\ last'.b.name \in DOMAIN hands
            /\ last'.b.idx # last'.b.idx2) =>
        LET A == last'.b.name
            i == last'.b.idx
            j == last'.b.idx2
        IN  /\ err' = NoError
            /\ hands' = [hands EXCEPT ![A][i + 1] = At(hands[A], j),
                                      ![A][j + 1] = At(hands[A], i)]
            /\ \A o \in DOMAIN hands :
                  /\ Knows(views', o, A, i) = Knows(views, o, A, j)
                  /\ Knows(views', o, A, j) = Knows(views, o, A, i)]_vars

====
